---------------------------- MODULE Spec2Model ----------------------------
(***************************************************************************)
(* A model of the rego terminal-UI runtime (github.com/erweixin/rego):     *)
(* keyed state cells and their State handles, effect slots, the refresh    *)
(* channel and the main loop, the focus manager, the identity tree with    *)
(* its input handlers, and the Bridge rendezvous.                          *)
(*                                                                         *)
(* The module holds several specifications over one set of variables.     *)
(* Each specification drives one subsystem and leaves the variables of    *)
(* the others at their initial value:                                      *)
(*   SpecState    state cells and State handles        (Use, Set, Update)  *)
(*   SpecEffects  effect slots of a record             (reset, UseEffect)  *)
(*   SpecLoop     Runtime.Run, render, scheduleRefresh, background writers *)
(*   SpecLoopFair SpecLoop with the scheduling fairness of the loop        *)
(*   SpecFocus    FocusManager across render passes                        *)
(*   SpecTree     componentContext tree, handlers, key dispatch            *)
(*   SpecBridge   Bridge / Handle: Ask, Submit, UseBridge                  *)
(*   SpecPush     Bridge / Handle: Update, UseBridge                       *)
(*   SpecMemo     memo slots of a record                (reset, UseMemo)   *)
(*   SpecRef      ref cells of a record                 (reset, UseRef)    *)
(*   SpecChild    componentContext.Child, records and what they store      *)
(*   SpecCleanup  effect cleanups at re-run and at the exit of Run         *)
(*   SpecDiag     input handling after a render fault                      *)
(*   SpecClick    UseFocus, UseMouse and pointer events                    *)
(*   SpecLayout   measure and render of the layout nodes                   *)
(*   SpecScroll   ScrollBox / TailBox and scrollNode.render                *)
(*   SpecCaret    cursor markers and Runtime.setCursor                     *)
(*   SpecContext  Context.Provide and UseContext                           *)
(*   SpecPass     the steps of one render pass and a ticker task           *)
(*   SpecBridgeFair SpecBridge with the scheduling fairness around it      *)
(*   SpecKeys     Button key handlers and the focus                        *)
(*   SpecInput    TextInput: keys, clicks and the external Value           *)
(*   SpecCursor   findPosAbove and findPosBelow                            *)
(***************************************************************************)
EXTENDS Integers, Sequences, FiniteSets, TLC

VARIABLES
  \* ---- state cells (componentContext.states) and State[T] objects
  states,        \* [Records -> [StateKeys -> Vals \cup {Absent}]]
  handles,       \* [HandleIds -> State object], the State objects still referenced
  refreshChan,   \* number of tokens buffered in Runtime.refreshChan
  hlast,         \* history: the last hook operation and what it did
  lastSet,       \* history: the value passed to the latest Set on each cell
  \* ---- effect slots (componentContext.effects / effectIndex)
  effects,       \* [Records -> [EffectIdx -> effectSlot]]
  effectIndex,   \* [Records -> Nat]
  elast,         \* history: the last UseEffect call and the callbacks it invoked
  eprev,         \* history: per slot, the deps and the cleanup of the latest body run
  \* ---- FocusManager
  fm,            \* [focusable, focusMap, currentKey]
  flast,         \* history: the last focus operation and the focused key before it
  lastRegs,      \* history: the keys passed to Register in the latest render pass
  \* ---- componentContext tree
  children,      \* the records created so far (paths from the root)
  keyHandler,    \* [Paths -> handler closure], 0 is nil
  mouseHandler,  \* [Paths -> handler closure], 0 is nil
  pass,          \* number of render passes so far (names the closures of a pass)
  tlast,         \* history: the last tree operation and the handlers it invoked
  lastKeyRegs,   \* history: records that called UseKey in the latest pass
  lastMouseRegs, \* history: records that called UseMouse in the latest pass
  \* ---- Runtime: the main loop and the background tasks
  loopPc,        \* where Runtime.Run is: start, select, render, done, crashed
  quitClosed,    \* Runtime.quitChan has been closed
  lastPanic,     \* Runtime.lastPanic (NoPanic is nil)
  screen,        \* what the last Show put on the terminal: blank, ui, error
  objs,          \* [ObjIds -> State object]: the State objects of the cell in use
  mainObj,       \* the State object of the latest render, held by its handlers
  taskObj,       \* [LoopTasks -> object held by the task's closure]
  taskPc,        \* [LoopTasks -> unborn, idle, refresh]
  llast,         \* history: the last step of the loop or of a task
  pendingReqs,   \* history: scheduleRefresh calls since the loop last received
  dirty,         \* history: the cell was changed and no pass has read it since
  firstPanic,    \* history: the fault value first recorded
  rootAfterPanic, \* history: the root ran in a pass that began with a recorded fault
  \* ---- Bridge: the cell "bridge_interaction", its State objects, the UI
  \* ---- side in Submit and the background tasks in Ask
  bcell,         \* the cell "bridge_interaction" (NoInteraction is nil)
  bobjs,         \* [BridgeObjs -> Val of the interaction State object]
  uiRef,         \* the Bridge of the latest render: "handle" until the second render
  uiPc,          \* the UI side: start, select, eval, sending, clearing, clearing2
  uiSend,        \* the running Submit: its answer, channel, and the question shown
  askPc,         \* [BridgeTasks -> idle, publishing, waiting]
  askP,          \* [BridgeTasks -> the pendingInteraction of the task's Ask]
  askN,          \* [BridgeTasks -> number of Ask calls made]
  got,           \* history: [BridgeTasks -> what the task's last Ask returned]
  submitted,     \* history: a Submit that delivered its answer has returned
  askSinceSubmit, \* history: an Ask acted after the last Submit delivered its answer
  renderedSince, \* history: a render pass ran after that Submit returned
  \* ---- Bridge: the cell "bridge_state" and Handle.Update
  pcell,         \* the cell "bridge_state"
  pobjs,         \* [PushObjs -> Val of the State object]
  puiRef,        \* the State object of the Bridge of the latest render
  puiPc,         \* the main loop: start, select, done
  pmu,           \* [PushObjs -> bridgeHandle.mu: 0 or the task that holds it]
  pushPc,        \* [BridgeTasks -> unborn, idle, refresh]
  ptaskObj,      \* [BridgeTasks -> the State object of the task's handle]
  plast,         \* history: the last step
  lastPush,      \* history: the value of the last Update that ran Set (Absent: none)
  pdirty,        \* history: an Update changed the cell and no pass has read it since
  \* ---- UseMemo
  memos,         \* [MemoIdx -> memo slot of the record]
  memoIndex,     \* componentContext.memoIndex
  mlast,         \* history: the last UseMemo call
  mprev,         \* history: [MemoIdx -> deps and value of the slot's last computation]
  \* ---- UseRef
  refs,          \* [RefKeys -> ref cell of the record]
  refIndex,      \* componentContext.refIndex
  rlast,         \* history: the last UseRef call or assignment
  firstCell,     \* history: [RefIdx -> the cell first returned to the i-th call]
  expected,      \* history: [RefIdx -> the value last assigned, or the first initial]
  \* ---- componentContext.Child: the records below the root
  crecs,         \* [ChildIds -> componentContext], a record is named by its id
  requested,     \* [ChildIds -> Child returned the record in the current pass]
  clast,         \* history: the last Child call
  cfirst,        \* history: [parent, request -> the record first returned]
  cfilled,       \* history: [ChildIds -> the record's body has stored its hooks' data]
  skipped,       \* history: [ChildIds -> a whole pass did not request the record]
  \* ---- effect cleanups over the tree and the exit of Runtime.Run
  cslots,        \* [CleanupRecs -> effectSlot], slot 0 of each record
  cupc,          \* where Runtime.Run is: select, done (returned nil), crashed
  cuquit,        \* Runtime.quitChan has been closed
  cupanic,       \* Runtime.lastPanic is set
  cbNext,        \* the next cleanup closure an effect body will return
  mounted,       \* the latest render pass requested the child
  invoked,       \* history: [Callbacks -> number of invocations]
  culast,        \* history: the last step
  \* ---- input handling after a render fault
  dpc,           \* where Runtime.Run is: start, select
  dpanic,        \* Runtime.lastPanic is set
  dquit,         \* Runtime.quitChan has been closed
  dfm,           \* the FocusManager
  dkey,          \* rootContext.keyHandler is not nil
  dmouse,        \* rootContext.mouseHandler: NoKey is nil, else the focus key it focuses
  dcell,         \* the state cell written by the key handler
  dobj,          \* Val of the State object captured by the key handler
  dlast,         \* history: the last input event and the state before it
  \* ---- UseFocus and pointer events
  kpc,           \* where Runtime.Run is: start, select
  krect,         \* [ClickComps -> componentContext.rect]
  kmouse,        \* [ClickComps -> mouseHandler: nil, focus (set by UseFocus), user]
  kfm,           \* the FocusManager
  kfocusable,    \* the components whose body called UseFocus in the latest pass
  klast,         \* history: the last pointer event and the focused key before it
  \* layout (SpecLayout)
  lnode,        \* the node tree laid out last
  lwidth,       \* the width it was measured and rendered with
  lheight,      \* the height its render was granted
  lmeasure,     \* measureNodeHeight(lnode, lwidth)
  lused,        \* what lnode.render yielded: used height, rows, grants, first offset
  lrendered,    \* a layout pass has run
  \* scroll (SpecScroll)
  sstates,      \* the TailBox context's states map: "scrollTop", "autoScroll"
  hTop,         \* Val of the scrollTop handle of the last pass
  hAuto,        \* Val of the autoScroll handle of the last pass
  hChild,       \* lines of the child the last pass's handler captured
  srect,        \* height of the box's rectangle (0 before the first layout)
  scontent,     \* lines of content the application holds
  swheel,       \* wheel events delivered so far
  spinned,      \* history: the user has not scrolled away from the bottom
  sout,         \* history: what the last pass computed and drew
  \* caret (SpecCaret)
  gcursor,      \* Runtime.showCursor and Runtime.cursorX, cursorY
  gcaret,       \* the caret of the real surface: shown or not, and where
  gpanic,       \* Runtime.lastPanic is not nil
  glast,        \* history: the last pass, its requests, the caret before it
  \* context (SpecContext)
  contextValues, \* componentContext.contextValues of root and mid for the one context
  xread,        \* what leaf's UseContext returned in the last pass
  xlast,        \* history: number of passes, and what root and mid provided in the last
  \* ---- the steps of one render pass (SpecPass)
  qcells,       \* rootContext.states: key -> value
  qpc,          \* where the main loop is: start, select, body, nested, nodes
  qview,        \* the height of the terminal
  qh,           \* Val of the State objects of the current or latest pass
  qtick,        \* Val of the State object held by the ticker goroutine (Absent: none)
  qreads,       \* history: what the reads of "seconds" returned in the pass
  qstart,       \* history: the cells when the pass began
  qquiet,       \* history: passes begun since the last input or background write
  qlast,        \* history: the last step
  \* ---- Button: key handlers and the focus (SpecKeys)
  yfm,          \* the FocusManager
  yhandler,     \* [Buttons3 -> keyHandler of the record: nil, or the IsFocused it captured]
  ypc,          \* where the main loop is: start, select
  ylast,        \* history: the last event, the current key at dispatch, who acted
  \* ---- TextInput (SpecInput) and its cursor helpers (SpecCursor)
  icells,       \* the cells of the input's record: "text" (a sequence of runes), "cursorPos"
  islot,        \* the effect slot of the Value effect: ran, deps
  ifault,       \* a render pass or a handler of the input has panicked
  ilast,        \* history: the last step of the input
  vfind         \* the last findPosAbove / findPosBelow call and its result

stateVars  == <<states, handles, hlast, lastSet>>
effectVars == <<effects, effectIndex, elast, eprev>>
focusVars  == <<fm, flast, lastRegs>>
treeVars   == <<children, keyHandler, mouseHandler, pass, tlast, lastKeyRegs,
                lastMouseRegs>>
loopVars   == <<loopPc, quitClosed, lastPanic, screen, objs, mainObj, taskObj,
                taskPc, llast, pendingReqs, dirty, firstPanic, rootAfterPanic>>
bridgeVars == <<bcell, bobjs, uiRef, uiPc, uiSend, askPc, askP, askN, got,
                submitted, askSinceSubmit, renderedSince>>
pushVars   == <<pcell, pobjs, puiRef, puiPc, pmu, pushPc, ptaskObj, plast, lastPush,
                pdirty>>
memoVars   == <<memos, memoIndex, mlast, mprev>>
refVars    == <<refs, refIndex, rlast, firstCell, expected>>
childVars  == <<crecs, requested, clast, cfirst, cfilled, skipped>>
cleanupVars == <<cslots, cupc, cuquit, cupanic, cbNext, mounted, invoked, culast>>
diagVars   == <<dpc, dpanic, dquit, dfm, dkey, dmouse, dcell, dobj, dlast>>
clickVars  == <<kpc, krect, kmouse, kfm, kfocusable, klast>>
layoutVars == <<lnode, lwidth, lheight, lmeasure, lused, lrendered>>
scrollVars == <<sstates, hTop, hAuto, hChild, srect, scontent, swheel, spinned, sout>>
caretVars  == <<gcursor, gcaret, gpanic, glast>>
contextVars == <<contextValues, xread, xlast>>
passVars   == <<qcells, qpc, qview, qh, qtick, qreads, qstart, qquiet, qlast>>
keysVars   == <<yfm, yhandler, ypc, ylast>>
inputVars  == <<icells, islot, ifault, ilast, vfind>>
restVars   == <<pushVars, memoVars, refVars, childVars, cleanupVars,
                diagVars,
                clickVars,
                layoutVars,
                scrollVars,
                caretVars,
                contextVars,
                passVars,
                keysVars,
                inputVars>>
vars == <<states, handles, refreshChan, hlast, lastSet,
          effects, effectIndex, elast, eprev, fm, flast, lastRegs,
          children, keyHandler, mouseHandler, pass, tlast, lastKeyRegs,
          lastMouseRegs, loopPc, quitClosed, lastPanic, screen, objs, mainObj,
          taskObj, taskPc, llast, pendingReqs, dirty, firstPanic, rootAfterPanic,
          bcell, bobjs, uiRef, uiPc, uiSend, askPc, askP, askN, got, submitted,
          askSinceSubmit, renderedSince, pcell, pobjs, puiRef, puiPc, pmu, pushPc,
          ptaskObj, plast, lastPush, pdirty, memos, memoIndex, mlast, mprev,
          refs, refIndex, rlast, firstCell, expected,
          crecs, requested, clast, cfirst, cfilled, skipped,
          cslots, cupc, cuquit, cupanic, cbNext, mounted, invoked, culast,
          dpc, dpanic, dquit, dfm, dkey, dmouse, dcell, dobj, dlast,
          kpc, krect, kmouse, kfm, kfocusable, klast,
          lnode, lwidth, lheight, lmeasure, lused, lrendered,
          sstates, hTop, hAuto, hChild, srect, scontent, swheel, spinned, sout,
          gcursor, gcaret, gpanic, glast,
          contextValues, xread, xlast,
          qcells, qpc, qview, qh, qtick, qreads, qstart, qquiet, qlast,
          yfm, yhandler, ypc, ylast,
          icells, islot, ifault, ilast, vfind>>

\* What each specification leaves alone.
notState   == <<effectVars, focusVars, treeVars, loopVars, bridgeVars, restVars>>
notEffects == <<stateVars, refreshChan, focusVars, treeVars, loopVars, bridgeVars,
                restVars>>
notFocus   == <<stateVars, effectVars, treeVars, loopVars, bridgeVars, restVars>>
notTree    == <<stateVars, refreshChan, effectVars, focusVars, loopVars, bridgeVars,
                restVars>>
notLoop    == <<handles, hlast, lastSet, effectVars, focusVars, treeVars, bridgeVars,
                restVars>>
notTreeKey == <<stateVars, effectVars, flast, lastRegs, loopPc, lastPanic, screen, objs,
                mainObj, taskObj, taskPc, llast, pendingReqs, dirty, firstPanic,
                rootAfterPanic, bridgeVars, restVars>>
notBridge  == <<stateVars, effectVars, focusVars, treeVars, loopVars, restVars>>
notPush    == <<stateVars, effectVars, focusVars, treeVars, loopVars, bridgeVars,
                memoVars, refVars,
                childVars,
                cleanupVars,
                diagVars,
                clickVars,
                layoutVars,
                scrollVars,
                caretVars,
                contextVars,
                passVars,
                keysVars,
                inputVars>>
notMemo    == <<stateVars, refreshChan, effectVars, focusVars, treeVars, loopVars,
                bridgeVars, pushVars, refVars,
                childVars,
                cleanupVars,
                diagVars,
                clickVars,
                layoutVars,
                scrollVars,
                caretVars,
                contextVars,
                passVars,
                keysVars,
                inputVars>>
notRef     == <<stateVars, refreshChan, effectVars, focusVars, treeVars, loopVars,
                bridgeVars, pushVars, memoVars,
                childVars,
                cleanupVars,
                diagVars,
                clickVars,
                layoutVars,
                scrollVars,
                caretVars,
                contextVars,
                passVars,
                keysVars,
                inputVars>>
notChild   == <<stateVars, refreshChan, effectVars, focusVars, treeVars, loopVars,
                bridgeVars, pushVars, memoVars, refVars,
                cleanupVars,
                diagVars,
                clickVars,
                layoutVars,
                scrollVars,
                caretVars,
                contextVars,
                passVars,
                keysVars,
                inputVars>>
notCleanup == <<stateVars, refreshChan, effectVars, focusVars, treeVars, loopVars,
                bridgeVars, pushVars, memoVars, refVars, childVars,
                diagVars,
                clickVars,
                layoutVars,
                scrollVars,
                caretVars,
                contextVars,
                passVars,
                keysVars,
                inputVars>>
notDiag    == <<stateVars, effectVars, focusVars, treeVars, loopVars,
                bridgeVars, pushVars, memoVars, refVars, childVars, cleanupVars,
                clickVars,
                layoutVars,
                scrollVars,
                caretVars,
                contextVars,
                passVars,
                keysVars,
                inputVars>>
notClick   == <<stateVars, effectVars, focusVars, treeVars, loopVars,
                bridgeVars, pushVars, memoVars, refVars, childVars, cleanupVars, diagVars,
                layoutVars,
                scrollVars,
                caretVars,
                contextVars,
                passVars,
                keysVars,
                inputVars>>
notLayout  == <<stateVars, refreshChan, effectVars, focusVars, treeVars, loopVars,
                bridgeVars, pushVars, memoVars, refVars, childVars, cleanupVars, diagVars, clickVars,
                scrollVars,
                caretVars,
                contextVars,
                passVars,
                keysVars,
                inputVars>>
notScroll  == <<stateVars, refreshChan, effectVars, focusVars, treeVars, loopVars,
                bridgeVars, pushVars, memoVars, refVars, childVars, cleanupVars, diagVars, clickVars, layoutVars,
                caretVars,
                contextVars,
                passVars,
                keysVars,
                inputVars>>
notCaret   == <<stateVars, refreshChan, effectVars, focusVars, treeVars, loopVars,
                bridgeVars, pushVars, memoVars, refVars, childVars, cleanupVars, diagVars, clickVars, layoutVars, scrollVars,
                contextVars,
                passVars,
                keysVars,
                inputVars>>
notContext == <<stateVars, refreshChan, effectVars, focusVars, treeVars, loopVars,
                bridgeVars, pushVars, memoVars, refVars, childVars, cleanupVars, diagVars, clickVars, layoutVars, scrollVars, caretVars,
                passVars,
                keysVars,
                inputVars>>
notPass    == <<stateVars, effectVars, focusVars, treeVars, loopVars,
                bridgeVars, pushVars, memoVars, refVars, childVars, cleanupVars, diagVars, clickVars, layoutVars, scrollVars, caretVars, contextVars,
                keysVars,
                inputVars>>
notKeys    == <<stateVars, effectVars, focusVars, treeVars, loopVars,
                bridgeVars, pushVars, memoVars, refVars, childVars, cleanupVars, diagVars, clickVars, layoutVars, scrollVars, caretVars, contextVars, passVars,
                inputVars>>
notInput   == <<stateVars, refreshChan, effectVars, focusVars, treeVars, loopVars,
                bridgeVars, pushVars, memoVars, refVars, childVars, cleanupVars, diagVars, clickVars, layoutVars, scrollVars, caretVars, contextVars, passVars, keysVars>>

---------------------------------------------------------------------------
\* Bounds of the model.
MaxVal     == 1      \* state cells hold values 0..MaxVal
MaxHandles == 2      \* State objects held at one time by closures
MaxEffects == 2      \* UseEffect calls of a record in one render
MaxRegs    == 4      \* Register calls (UseFocus) in one render pass
MaxPasses  == 2      \* render passes of SpecTree
MaxMemos   == 2      \* UseMemo calls of a record in one render
MaxRefs    == 3      \* UseRef calls of a record in one render
MaxAsks    == 2      \* Ask calls of one background task in SpecBridge
MaxReqs    == 2      \* pendingReqs counts up to MaxReqs ("MaxReqs or more")

Records   == {"root", "child"}
StateKeys == {"count", "name"}
Vals      == 0..MaxVal
Absent    == -1
HandleIds == 1..MaxHandles

\* runtime.go:34  refreshChan: make(chan struct{}, 1)
RefreshCap == 1

---------------------------------------------------------------------------
\* Runtime.scheduleRefresh: a select with a default branch.  The result is
\* the set of channel contents the call can complete with; an empty set
\* would mean that the caller blocks.
scheduleRefreshBlocking(ch) == IF ch < RefreshCap THEN {ch + 1} ELSE {}
scheduleRefreshUnbounded(ch) == {ch + 1}
scheduleRefreshLossy(ch) == {ch}
scheduleRefresh(ch) == IF ch < RefreshCap THEN {ch + 1} ELSE {ch}

\* reflect.DeepEqual on the values a cell holds.
DeepEqual(a, b) == a = b

---------------------------------------------------------------------------
\* State cells and State handles.

NoHandle == [ctx |-> "", key |-> "", Val |-> Absent]
NoHook   == [op |-> "none", ctx |-> "", key |-> "", arg |-> Absent,
             val |-> Absent, cellBefore |-> Absent, refreshed |-> FALSE,
             fn |-> "none"]

\* componentContext.getState / setState
getState(c, key) == states[c][key]
setStateAll(st, c, key, value) == [st EXCEPT ![c] = [k \in StateKeys |-> value]]
setState(st, c, key, value) == [st EXCEPT ![c][key] = value]

\* Use: the State object returned and the cell map after the call.
UseResult(c, key, initial) ==
  IF getState(c, key) /= Absent
    THEN [handle |-> [ctx |-> c, key |-> key, Val |-> getState(c, key)],
          states |-> states]
    ELSE [handle |-> [ctx |-> c, key |-> key, Val |-> initial],
          states |-> setState(states, c, key, initial)]

\* State.Set on State object s: what it stores and whether it calls Refresh.
SetNoSuppress(s, value) ==
  [Val |-> value, states |-> setState(states, s.ctx, s.key, value),
   refreshed |-> TRUE]
SetResult(s, value) ==
  IF DeepEqual(s.Val, value)
    THEN [Val |-> s.Val, states |-> states, refreshed |-> FALSE]
    ELSE [Val |-> value, states |-> setState(states, s.ctx, s.key, value),
          refreshed |-> TRUE]

\* The functions passed to State.Update in the model.
UpdateFns == {"inc", "zero"}
ApplyFn(fn, old) == IF fn = "inc" THEN (old + 1) % (MaxVal + 1) ELSE 0

InitState ==
  /\ states = [c \in Records |-> [k \in StateKeys |-> Absent]]
  /\ handles = [h \in HandleIds |-> NoHandle]
  /\ hlast = NoHook
  /\ lastSet = [c \in Records |-> [k \in StateKeys |-> Absent]]

\* Use(c, key, initial), the State object kept by holder h (a closure of
\* the component body, of a handler or of a background task).
Use(h, c, key, initial) ==
  LET r == UseResult(c, key, initial) IN
  /\ states' = r.states
  /\ handles' = [handles EXCEPT ![h] = r.handle]
  /\ hlast' = [NoHook EXCEPT !.op = "Use", !.ctx = c, !.key = key,
                             !.arg = initial, !.val = r.handle.Val,
                             !.cellBefore = getState(c, key)]
  /\ UNCHANGED <<refreshChan, lastSet>>

\* s.Set(value) through the State object held by h.
SetVia(h, value, opname, fname) ==
  LET s == handles[h]
      r == SetResult(s, value) IN
  /\ s /= NoHandle
  /\ states' = r.states
  /\ handles' = [g \in HandleIds |->
                   IF g = h THEN [handles[g] EXCEPT !.Val = r.Val] ELSE handles[g]]
  /\ refreshChan' \in (IF r.refreshed THEN scheduleRefresh(refreshChan)
                                      ELSE {refreshChan})
  /\ hlast' = [NoHook EXCEPT !.op = opname, !.ctx = s.ctx, !.key = s.key,
                             !.arg = value, !.val = r.Val,
                             !.cellBefore = getState(s.ctx, s.key),
                             !.refreshed = r.refreshed, !.fn = fname]
  /\ lastSet' = [lastSet EXCEPT ![s.ctx][s.key] = value]

Set(h, value) == SetVia(h, value, "Set", "none")

\* s.Update(fn) == s.Set(fn(s.Val))
Update(h, fn) ==
  /\ handles[h] /= NoHandle
  /\ SetVia(h, ApplyFn(fn, handles[h].Val), "Update", fn)

\* The main loop receives from refreshChan (runtime.go:90).
TakeRefresh ==
  /\ refreshChan > 0
  /\ refreshChan' = refreshChan - 1
  /\ hlast' = NoHook
  /\ UNCHANGED <<states, handles, lastSet>>

\* The records whose cells SpecState exercises.
StateRecords == {"root"}

\* Specification of the state cells: any holder may call Use, Set or Update
\* at any time (handlers, effects and background tasks keep the State
\* object of the render in which they were created).
NextState ==
  \/ \E h \in HandleIds, c \in StateRecords, k \in StateKeys, i \in Vals :
        Use(h, c, k, i) /\ UNCHANGED notState
  \/ \E h \in HandleIds, v \in Vals : Set(h, v) /\ UNCHANGED notState
  \/ \E h \in HandleIds, fn \in UpdateFns : Update(h, fn) /\ UNCHANGED notState
  \/ TakeRefresh /\ UNCHANGED notState

---------------------------------------------------------------------------
\* Effect slots.

\* Dependency lists and cleanup closures of the model (0 is the nil cleanup).
DepLists   == {<<>>, <<1>>, <<2>>, <<1, 1>>}
CleanupIds == {1, 2}
EffectIdx  == 0..(MaxEffects - 1)

\* getEffectSlot returns nil for an index never used; UseEffect then
\* stores &effectSlot{}.
NoSlot == [exists |-> FALSE, deps |-> <<>>, cleanup |-> 0, ran |-> FALSE]
NoEffect == [op |-> "none", ctx |-> "", idx |-> 0, deps |-> <<>>, ret |-> 0,
             events |-> <<>>, prev |-> [ran |-> FALSE, deps |-> <<>>, ret |-> 0]]

\* depsEqual: same length and element-wise reflect.DeepEqual.
depsEqualLenOnly(a, b) == Len(a) = Len(b)
depsEqual(a, b) ==
  /\ Len(a) = Len(b)
  /\ \A i \in 1..Len(a) : DeepEqual(a[i], b[i])

\* The body of UseEffect on a slot: the slot afterwards and the callbacks
\* invoked, in order.  ret is the cleanup the body returns (0: nil).
UseEffectNoCleanup(slot, deps, ret) ==
  IF (~slot.ran) \/ ~depsEqual(slot.deps, deps)
    THEN [slot |-> [exists |-> TRUE, deps |-> deps, cleanup |-> ret, ran |-> TRUE],
          events |-> <<[kind |-> "body", id |-> ret]>>]
    ELSE [slot |-> [slot EXCEPT !.exists = TRUE], events |-> <<>>]
UseEffectKeepCleanup(slot, deps, ret) ==
  IF (~slot.ran) \/ ~depsEqual(slot.deps, deps)
    THEN [slot |-> [exists |-> TRUE, deps |-> deps,
                    cleanup |-> IF slot.cleanup /= 0 THEN slot.cleanup ELSE ret,
                    ran |-> TRUE],
          events |-> (IF slot.cleanup /= 0
                        THEN <<[kind |-> "cleanup", id |-> slot.cleanup]>>
                        ELSE <<>>) \o <<[kind |-> "body", id |-> ret]>>]
    ELSE [slot |-> [slot EXCEPT !.exists = TRUE], events |-> <<>>]
UseEffectResult(slot, deps, ret) ==
  IF (~slot.ran) \/ ~depsEqual(slot.deps, deps)
    THEN [slot |-> [exists |-> TRUE, deps |-> deps, cleanup |-> ret, ran |-> TRUE],
          events |-> (IF slot.cleanup /= 0
                        THEN <<[kind |-> "cleanup", id |-> slot.cleanup]>>
                        ELSE <<>>) \o <<[kind |-> "body", id |-> ret]>>]
    ELSE [slot |-> [slot EXCEPT !.exists = TRUE], events |-> <<>>]

InitEffects ==
  /\ effects = [c \in Records |-> [i \in EffectIdx |-> NoSlot]]
  /\ effectIndex = [c \in Records |-> 0]
  /\ elast = NoEffect
  /\ eprev = [c \in Records |->
               [i \in EffectIdx |-> [ran |-> FALSE, deps |-> <<>>, ret |-> 0]]]

\* componentContext.reset, the part that concerns effects.
resetEffects(c) ==
  /\ effectIndex' = [effectIndex EXCEPT ![c] = 0]
  /\ elast' = NoEffect
  /\ UNCHANGED <<effects, eprev>>

\* UseEffect(c, fn, deps...): the next slot of c by call order.
UseEffect(c, deps, ret) ==
  LET key == effectIndex[c]
      r == UseEffectResult(effects[c][key], deps, ret)
      ranBody == \E j \in 1..Len(r.events) : r.events[j].kind = "body" IN
  /\ key \in EffectIdx
  /\ effectIndex' = [effectIndex EXCEPT ![c] = key + 1]
  /\ effects' = [effects EXCEPT ![c][key] = r.slot]
  /\ elast' = [op |-> "UseEffect", ctx |-> c, idx |-> key, deps |-> deps,
               ret |-> ret, events |-> r.events, prev |-> eprev[c][key]]
  /\ eprev' = IF ranBody
                THEN [eprev EXCEPT ![c][key] = [ran |-> TRUE, deps |-> deps, ret |-> ret]]
                ELSE eprev

EffectRecords == {"root"}

NextEffects ==
  \/ \E c \in EffectRecords : resetEffects(c) /\ UNCHANGED notEffects
  \/ \E c \in EffectRecords, d \in DepLists, ret \in {0} \cup CleanupIds :
        UseEffect(c, d, ret) /\ UNCHANGED notEffects

---------------------------------------------------------------------------
\* FocusManager.  The write-only bookkeeping (order, orderMap) is left out;
\* focusMap is kept as the set of its keys.

FocusKeys == {"A", "B", "C"}
NoKey     == ""

\* newFocusManager
newFocusManager == [focusable |-> <<>>, focusMap |-> {}, currentKey |-> NoKey]

\* FocusManager.Reset: empties the registry and keeps currentKey.
Reset(m) == [m EXCEPT !.focusable = <<>>, !.focusMap = {}]

\* FocusManager.Register
RegisterNoDedupe(m, key) ==
  [focusable |-> Append(m.focusable, key),
   focusMap |-> m.focusMap \cup {key},
   currentKey |-> IF m.currentKey = NoKey THEN key ELSE m.currentKey]
Register(m, key) ==
  IF key \in m.focusMap
    THEN m
    ELSE [focusable |-> Append(m.focusable, key),
          focusMap |-> m.focusMap \cup {key},
          currentKey |-> IF m.currentKey = NoKey THEN key ELSE m.currentKey]

\* The Register calls of one render pass, in order.
RECURSIVE RegisterAll(_, _)
RegisterAll(m, regs) ==
  IF regs = <<>> THEN m ELSE RegisterAll(Register(m, Head(regs)), Tail(regs))

\* The loop "for i, key := range fm.focusable" of Next and Prev: the 0-based
\* index of the first occurrence of currentKey, or -1.
currentIdx(m) ==
  IF \E i \in 1..Len(m.focusable) : m.focusable[i] = m.currentKey
    THEN (CHOOSE i \in 1..Len(m.focusable) :
            /\ m.focusable[i] = m.currentKey
            /\ \A j \in 1..(i - 1) : m.focusable[j] /= m.currentKey) - 1
    ELSE -1

\* FocusManager.Next
NextNoWrap(m) ==
  IF Len(m.focusable) = 0
    THEN m
    ELSE [m EXCEPT !.currentKey =
            m.focusable[(IF currentIdx(m) + 1 >= Len(m.focusable)
                           THEN Len(m.focusable) - 1
                           ELSE currentIdx(m) + 1) + 1]]
Next(m) ==
  IF Len(m.focusable) = 0
    THEN m
    ELSE [m EXCEPT !.currentKey =
            m.focusable[((currentIdx(m) + 1) % Len(m.focusable)) + 1]]

\* FocusManager.Prev
Prev(m) ==
  IF Len(m.focusable) = 0
    THEN m
    ELSE LET prevIdx == currentIdx(m) - 1 IN
         [m EXCEPT !.currentKey =
            m.focusable[(IF prevIdx < 0 THEN Len(m.focusable) - 1 ELSE prevIdx) + 1]]

\* FocusManager.Focus
Focus(m, key) == IF key \in m.focusMap THEN [m EXCEPT !.currentKey = key] ELSE m

\* FocusManager.IsFocused
IsFocused(m, key) == m.currentKey = key

NoFocusOp == [op |-> "none", before |-> NoKey, key |-> NoKey]

InitFocus ==
  /\ fm = newFocusManager
  /\ flast = NoFocusOp
  /\ lastRegs = <<>>

\* The sequences of keys a render pass can register.
RegSeqs == UNION {[1..n -> FocusKeys] : n \in 0..MaxRegs}

\* Runtime.render, as far as the focus manager goes: Reset, then one
\* Register per UseFocus call of the components rendered in the pass.
FocusRender(regs) ==
  /\ fm' = RegisterAll(Reset(fm), regs)
  /\ flast' = [op |-> "render", before |-> fm.currentKey, key |-> NoKey]
  /\ lastRegs' = regs
  /\ UNCHANGED refreshChan

\* Runtime.handleEvent on Tab: Next, then scheduleRefresh.
FocusTab ==
  /\ fm' = Next(fm)
  /\ flast' = [op |-> "Next", before |-> fm.currentKey, key |-> NoKey]
  /\ refreshChan' \in scheduleRefresh(refreshChan)
  /\ UNCHANGED lastRegs

\* Runtime.handleEvent on Shift+Tab: Prev, then scheduleRefresh.
FocusShiftTab ==
  /\ fm' = Prev(fm)
  /\ flast' = [op |-> "Prev", before |-> fm.currentKey, key |-> NoKey]
  /\ refreshChan' \in scheduleRefresh(refreshChan)
  /\ UNCHANGED lastRegs

\* FocusState.Focus of a component rendered in the latest pass (also the
\* click inside its rectangle): Focus(key), then Refresh.
FocusCall(key) ==
  /\ \E i \in 1..Len(lastRegs) : lastRegs[i] = key
  /\ fm' = Focus(fm, key)
  /\ flast' = [op |-> "Focus", before |-> fm.currentKey, key |-> key]
  /\ refreshChan' \in scheduleRefresh(refreshChan)
  /\ UNCHANGED lastRegs

\* FocusState.Blur of a component rendered in the latest pass.
BlurCall(key) ==
  /\ \E i \in 1..Len(lastRegs) : lastRegs[i] = key
  /\ fm' = IF IsFocused(fm, key) THEN Next(fm) ELSE fm
  /\ flast' = [op |-> "Blur", before |-> fm.currentKey, key |-> key]
  /\ refreshChan' \in (IF IsFocused(fm, key) THEN scheduleRefresh(refreshChan)
                                             ELSE {refreshChan})
  /\ UNCHANGED lastRegs

\* The main loop takes the refresh token (SpecFocus).
FocusTakeRefresh ==
  /\ refreshChan > 0
  /\ refreshChan' = refreshChan - 1
  /\ UNCHANGED <<fm, flast, lastRegs>>

NextFocus ==
  \/ \E regs \in RegSeqs : FocusRender(regs) /\ UNCHANGED notFocus
  \/ FocusTab /\ UNCHANGED notFocus
  \/ FocusShiftTab /\ UNCHANGED notFocus
  \/ \E k \in FocusKeys : FocusCall(k) /\ UNCHANGED notFocus
  \/ \E k \in FocusKeys : BlurCall(k) /\ UNCHANGED notFocus
  \/ FocusTakeRefresh /\ UNCHANGED notFocus

---------------------------------------------------------------------------
\* The componentContext tree and its input handlers.  A record is named by
\* the path of child keys from the root; a handler closure is named by the
\* render pass that registered it (0 is nil).

Paths == {<<>>, <<"a">>, <<"b">>, <<"a", "x">>}
ChildKeys == {"a", "b", "x"}
ParentOf(p) == SubSeq(p, 1, Len(p) - 1)

InitTree ==
  /\ children = {<<>>}
  /\ keyHandler = [p \in Paths |-> 0]
  /\ mouseHandler = [p \in Paths |-> 0]
  /\ pass = 0
  /\ tlast = [op |-> "none", key |-> "", invoked |-> <<>>]
  /\ lastKeyRegs = {}
  /\ lastMouseRegs = {}

\* The sets of records a pass can render: the root, and a child only if
\* its parent is rendered (the parent's body calls c.Child(key)).
RenderSets ==
  {R \in SUBSET Paths : <<>> \in R /\ \A p \in R : p = <<>> \/ ParentOf(p) \in R}

\* componentContext.reset (handlers) for the records reset in a pass, then
\* UseKey / UseMouse of the bodies that register a handler.  Runtime.render
\* resets the root; Child resets an existing child and creates a missing
\* one with nil handlers; a record that is not requested is not touched.
handlerAfterNoReset(old, p, R, regs, n) ==
  IF p \in regs THEN n ELSE old
handlerAfter(old, p, R, regs, n) ==
  IF p \in R
    THEN (IF p \in regs THEN n ELSE 0)
    ELSE old

\* One render pass of the tree: R are the records rendered, K and M those
\* whose body calls UseKey and UseMouse.
TreeRender(R, K, M) ==
  /\ pass < MaxPasses
  /\ ~quitClosed
  /\ K \subseteq R
  /\ M \subseteq R
  /\ pass' = pass + 1
  /\ children' = children \cup R
  /\ keyHandler' = [p \in Paths |-> handlerAfter(keyHandler[p], p, R, K, pass + 1)]
  /\ mouseHandler' = [p \in Paths |-> handlerAfter(mouseHandler[p], p, R, M, pass + 1)]
  /\ tlast' = [op |-> "render", key |-> "", invoked |-> <<>>]
  /\ lastKeyRegs' = K
  /\ lastMouseRegs' = M

\* The orders in which "for _, child := range c.children" can visit the
\* children of a record (Go leaves the order of a map range unspecified).
ChildOrders ==
  {o \in [1..Cardinality(ChildKeys) -> ChildKeys] :
     \A i, j \in 1..Cardinality(ChildKeys) : i /= j => o[i] /= o[j]}

\* componentContext.dispatchKeyEvent / dispatchMouseEvent from record p: the
\* handlers invoked, in order.  h is keyHandler or mouseHandler.
RECURSIVE dispatchFrom(_, _, _, _)
dispatchFrom(p, h, ord, i) ==
  IF i = 0
    THEN (IF h[p] /= 0 THEN <<[rec |-> p, fn |-> h[p]]>> ELSE <<>>)
           \o dispatchFrom(p, h, ord, 1)
    ELSE IF i > Len(ord)
      THEN <<>>
      ELSE (IF Append(p, ord[i]) \in children
              THEN dispatchFrom(Append(p, ord[i]), h, ord, 0)
              ELSE <<>>)
             \o dispatchFrom(p, h, ord, i + 1)

\* The key events handleEvent tells apart: Ctrl+C, Tab, Shift+Tab, any other.
KeyEvents == {"CtrlC", "Tab", "ShiftTab", "Enter"}

\* Runtime.handleEvent on a key event: the key handlers invoked.  Ctrl+C and
\* Tab return before rootContext.dispatchKeyEvent.
handleEventKeyAll(key, ord) == dispatchFrom(<<>>, keyHandler, ord, 0)
handleEventKey(key, ord) ==
  IF key \in {"CtrlC", "Tab", "ShiftTab"}
    THEN <<>>
    ELSE dispatchFrom(<<>>, keyHandler, ord, 0)

\* Runtime.handleEvent on a key event: Ctrl+C calls quit, Tab moves the
\* focus and schedules a refresh, any other key is dispatched to the tree.
\* The tree is followed until quit is called.
TreeKeyEvent(ord, key) ==
  /\ pass > 0
  /\ ~quitClosed
  /\ tlast' = [op |-> "key", key |-> key, invoked |-> handleEventKey(key, ord)]
  /\ quitClosed' = (quitClosed \/ key = "CtrlC")
  /\ fm' = IF key = "Tab" THEN Next(fm) ELSE IF key = "ShiftTab" THEN Prev(fm) ELSE fm
  /\ refreshChan' \in (IF key \in {"Tab", "ShiftTab"} THEN scheduleRefresh(refreshChan)
                                                     ELSE {refreshChan})
  /\ UNCHANGED <<children, keyHandler, mouseHandler, pass, lastKeyRegs, lastMouseRegs>>

\* Runtime.handleEvent on a mouse event.
TreeMouseEvent(ord) ==
  /\ pass > 0
  /\ ~quitClosed
  /\ tlast' = [op |-> "mouse", key |-> "", invoked |-> dispatchFrom(<<>>, mouseHandler, ord, 0)]
  /\ UNCHANGED <<children, keyHandler, mouseHandler, pass, lastKeyRegs, lastMouseRegs>>

NextTree ==
  \/ \E R \in RenderSets : \E K \in SUBSET R, M \in SUBSET R :
        TreeRender(R, K, M) /\ UNCHANGED notTree
  \/ \E ord \in ChildOrders, key \in KeyEvents :
        TreeKeyEvent(ord, key) /\ UNCHANGED notTreeKey
  \/ \E ord \in ChildOrders : TreeMouseEvent(ord) /\ UNCHANGED notTree

---------------------------------------------------------------------------
\* Runtime: Run, render, handleEvent, scheduleRefresh, quit, and background
\* tasks that write the cell (root, count) through the State object of the
\* render that started them.

LoopTasks == {1, 2}
ObjIds    == {0, 1, 2}
NoObj     == -1
NoPanic   == "nil"
Faults    == {"oops", "boom"}
LoopCell  == [ctx |-> "root", key |-> "count"]

NoLoopOp == [op |-> "none", kind |-> "", val |-> Absent, coalesced |-> FALSE]

InitLoop ==
  /\ loopPc = "start"
  /\ quitClosed = FALSE
  /\ lastPanic = NoPanic
  /\ screen = "blank"
  /\ objs = [o \in ObjIds |-> NoHandle]
  /\ mainObj = NoObj
  /\ taskObj = [t \in LoopTasks |-> NoObj]
  /\ taskPc = [t \in LoopTasks |-> "unborn"]
  /\ llast = NoLoopOp
  /\ pendingReqs = 0
  /\ dirty = FALSE
  /\ firstPanic = NoPanic
  /\ rootAfterPanic = FALSE

\* One more scheduleRefresh call since the loop last received from the channel.
countReq(n) == IF n < MaxReqs THEN n + 1 ELSE n

\* Runtime.render: what a pass does, given Runtime.lastPanic at its start
\* and the fault the root or the layout raises in it (NoPanic: none).
\* pc is where Run continues.
renderRetry(lp, fault) ==
  IF fault /= NoPanic
    THEN [lastPanic |-> fault, screen |-> "error", rootInvoked |-> TRUE, pc |-> "select"]
    ELSE [lastPanic |-> lp, screen |-> "ui", rootInvoked |-> TRUE, pc |-> "select"]
renderResult(lp, fault) ==
  IF lp /= NoPanic
    THEN [lastPanic |-> lp, screen |-> "error", rootInvoked |-> FALSE, pc |-> "select"]
    ELSE IF fault /= NoPanic
      THEN [lastPanic |-> fault, screen |-> "error", rootInvoked |-> TRUE, pc |-> "select"]
      ELSE [lastPanic |-> lp, screen |-> "ui", rootInvoked |-> TRUE, pc |-> "select"]

\* The State object a pass allocates: one that no task closure holds.
FreshObj == CHOOSE o \in ObjIds :
              /\ \A t \in LoopTasks : taskObj[t] /= o
              /\ \A q \in ObjIds : (\A t \in LoopTasks : taskObj[t] /= q) => o <= q

\* A render pass: the initial one of Run (runtime.go:70) or the one after a
\* receive from refreshChan (runtime.go:91).  The root body calls
\* Use(c, "count", 0) and may start background tasks (an effect that runs
\* "go func"), which keep the State object of this pass.  A fault is raised
\* before or after the body reached Use.
LoopRender(fault, afterUse, spawn) ==
  LET r == renderResult(lastPanic, fault)
      reached == r.rootInvoked /\ (fault = NoPanic \/ afterUse)
      u == UseResult(LoopCell.ctx, LoopCell.key, 0)
  IN
  /\ loopPc \in {"start", "render"}
  /\ spawn \subseteq {t \in LoopTasks : taskPc[t] = "unborn"}
  /\ (~reached) => spawn = {}
  /\ (fault = NoPanic) => afterUse
  /\ loopPc' = r.pc
  /\ lastPanic' = r.lastPanic
  /\ screen' = r.screen
  /\ states' = IF reached THEN u.states ELSE states
  /\ objs' = IF reached THEN [objs EXCEPT ![FreshObj] = u.handle] ELSE objs
  /\ mainObj' = IF reached THEN FreshObj ELSE mainObj
  /\ taskObj' = [t \in LoopTasks |-> IF t \in spawn THEN FreshObj ELSE taskObj[t]]
  /\ taskPc' = [t \in LoopTasks |-> IF t \in spawn THEN "idle" ELSE taskPc[t]]
  /\ dirty' = IF reached /\ fault = NoPanic THEN FALSE ELSE dirty
  /\ llast' = [op |-> "render",
               kind |-> IF ~r.rootInvoked THEN "diagnostic"
                        ELSE IF fault /= NoPanic THEN "faulted" ELSE "normal",
               val |-> IF reached THEN u.handle.Val ELSE Absent,
               coalesced |-> llast.op = "take" /\ llast.coalesced]
  /\ firstPanic' = IF firstPanic = NoPanic THEN r.lastPanic ELSE firstPanic
  /\ rootAfterPanic' = (rootAfterPanic \/ (lastPanic /= NoPanic /\ r.rootInvoked))
  /\ UNCHANGED <<refreshChan, quitClosed, pendingReqs>>

\* case <-r.refreshChan
LoopTakeRefresh ==
  /\ loopPc = "select"
  /\ refreshChan > 0
  /\ refreshChan' = refreshChan - 1
  /\ loopPc' = "render"
  /\ pendingReqs' = 0
  /\ llast' = [NoLoopOp EXCEPT !.op = "take", !.coalesced = (pendingReqs >= 2)]
  /\ UNCHANGED <<states, quitClosed, lastPanic, screen, objs, mainObj, taskObj,
                 taskPc, dirty, firstPanic, rootAfterPanic>>

\* case <-r.quitChan: return nil
LoopQuit ==
  /\ loopPc = "select"
  /\ quitClosed
  /\ loopPc' = "done"
  /\ llast' = NoLoopOp
  /\ UNCHANGED <<states, refreshChan, quitClosed, lastPanic, screen, objs, mainObj,
                 taskObj, taskPc, pendingReqs, dirty, firstPanic, rootAfterPanic>>

\* handleEvent, Ctrl+C: quit() closes quitChan; closing a closed channel
\* is a run-time panic outside any recover.
LoopCtrlC ==
  /\ loopPc = "select"
  /\ quitClosed' = TRUE
  /\ loopPc' = IF quitClosed THEN "crashed" ELSE loopPc
  /\ llast' = NoLoopOp
  /\ UNCHANGED <<states, refreshChan, lastPanic, screen, objs, mainObj, taskObj,
                 taskPc, pendingReqs, dirty, firstPanic, rootAfterPanic>>

\* handleEvent, Tab or a resize: scheduleRefresh from the main loop.
LoopResize ==
  /\ loopPc = "select"
  /\ refreshChan' \in scheduleRefresh(refreshChan)
  /\ pendingReqs' = countReq(pendingReqs)
  /\ llast' = NoLoopOp
  /\ UNCHANGED <<states, loopPc, quitClosed, lastPanic, screen, objs, mainObj, taskObj,
                 taskPc, dirty, firstPanic, rootAfterPanic>>

\* State.Set through object o, the objects afterwards.
objsAfterSet(o, r) == [objs EXCEPT ![o].Val = r.Val]

\* handleEvent, another key: the key handler of the latest pass calls
\* Set(v) on its State object; Set runs to its end in the main loop.
LoopKeySet(v) ==
  LET r == SetResult(objs[mainObj], v) IN
  /\ loopPc = "select"
  /\ mainObj /= NoObj
  /\ states' = r.states
  /\ objs' = objsAfterSet(mainObj, r)
  /\ refreshChan' \in (IF r.refreshed THEN scheduleRefresh(refreshChan)
                                      ELSE {refreshChan})
  /\ pendingReqs' = IF r.refreshed THEN countReq(pendingReqs) ELSE pendingReqs
  /\ dirty' = (dirty \/ r.states /= states)
  /\ llast' = NoLoopOp
  /\ UNCHANGED <<quitClosed, lastPanic, screen, mainObj, taskObj, taskPc, loopPc,
                 firstPanic, rootAfterPanic>>

\* A background task calls Set(v): the comparison, s.Val = value and
\* setState (part_015:21-25).  Refresh is the task's next step.
TaskSet(t, v) ==
  LET r == SetResult(objs[taskObj[t]], v) IN
  /\ taskPc[t] = "idle"
  /\ loopPc /= "crashed"
  /\ states' = r.states
  /\ objs' = objsAfterSet(taskObj[t], r)
  /\ taskPc' = [taskPc EXCEPT ![t] = IF r.refreshed THEN "refresh" ELSE "idle"]
  /\ dirty' = (dirty \/ r.states /= states)
  /\ llast' = NoLoopOp
  /\ UNCHANGED <<refreshChan, quitClosed, lastPanic, screen, mainObj, taskObj, loopPc,
                 pendingReqs, firstPanic, rootAfterPanic>>

\* A background task calls c.Refresh() on its own (spinner.go:23).
TaskCallRefresh(t) ==
  /\ taskPc[t] = "idle"
  /\ loopPc /= "crashed"
  /\ taskPc' = [taskPc EXCEPT ![t] = "refresh"]
  /\ llast' = NoLoopOp
  /\ UNCHANGED <<states, refreshChan, quitClosed, lastPanic, screen, objs, mainObj,
                 taskObj, loopPc, pendingReqs, dirty, firstPanic, rootAfterPanic>>

\* The task's scheduleRefresh (the end of Set, or c.Refresh()).
TaskRefresh(t) ==
  /\ taskPc[t] = "refresh"
  /\ loopPc /= "crashed"
  /\ refreshChan' \in scheduleRefresh(refreshChan)
  /\ pendingReqs' = countReq(pendingReqs)
  /\ taskPc' = [taskPc EXCEPT ![t] = "idle"]
  /\ llast' = NoLoopOp
  /\ UNCHANGED <<states, quitClosed, lastPanic, screen, objs, mainObj, taskObj,
                 loopPc, dirty, firstPanic, rootAfterPanic>>

LoopRenderAny ==
  \E fault \in {NoPanic} \cup Faults, afterUse \in BOOLEAN, spawn \in SUBSET LoopTasks :
    LoopRender(fault, afterUse, spawn) /\ UNCHANGED notLoop

NextLoop ==
  \/ LoopRenderAny
  \/ LoopTakeRefresh /\ UNCHANGED notLoop
  \/ LoopQuit /\ UNCHANGED notLoop
  \/ LoopCtrlC /\ UNCHANGED notLoop
  \/ LoopResize /\ UNCHANGED notLoop
  \/ \E v \in Vals : LoopKeySet(v) /\ UNCHANGED notLoop
  \/ \E t \in LoopTasks, v \in Vals : TaskSet(t, v) /\ UNCHANGED notLoop
  \/ \E t \in LoopTasks : TaskCallRefresh(t) /\ UNCHANGED notLoop
  \/ \E t \in LoopTasks : TaskRefresh(t) /\ UNCHANGED notLoop

\* The scheduling the code relies on: Go's select takes a ready case with
\* non-zero probability each time, so a token that stays in refreshChan is
\* eventually received; render returns; a runnable goroutine eventually
\* runs its next statement.
LoopFairness ==
  /\ WF_vars(LoopTakeRefresh /\ UNCHANGED notLoop)
  /\ WF_vars(LoopRenderAny)
  /\ \A t \in LoopTasks : WF_vars(TaskRefresh(t) /\ UNCHANGED notLoop)

---------------------------------------------------------------------------
\* Bridge: UseBridge, bridgeHandle.Ask and Bridge.Submit.  The background
\* tasks hold the handle of the Bridge of the first render; the UI side
\* calls Submit on the Bridge of the latest render.  Set on the interaction
\* State takes two steps, the write of s.Val and the write of the cell,
\* since Ask runs it outside the UI goroutine and without a lock.

BridgeTasks == {1, 2}
BridgeObjs  == {"handle", "ui"}
Questions   == {"q1", "q2"}
Answers     == {"yes", "no"}
NoChan      == <<0, 0>>
NoInteraction == [question |-> "", answerCh |-> NoChan]
NoSend      == [a |-> "", ch |-> NoChan, shownQ |-> ""]
NoGot       == [a |-> "", shownQ |-> "", q |-> ""]

\* make(chan A): a channel no other Ask has.
makeChanShared(t, n) == <<1, 1>>
makeChan(t, n) == <<t, n>>

InitBridge ==
  /\ bcell = NoInteraction
  /\ bobjs = [o \in BridgeObjs |-> NoInteraction]
  /\ uiRef = "handle"
  /\ uiPc = "start"
  /\ uiSend = NoSend
  /\ askPc = [t \in BridgeTasks |-> "idle"]
  /\ askP = [t \in BridgeTasks |-> NoInteraction]
  /\ askN = [t \in BridgeTasks |-> 0]
  /\ got = [t \in BridgeTasks |-> NoGot]
  /\ submitted = FALSE
  /\ askSinceSubmit = FALSE
  /\ renderedSince = FALSE

\* The tasks blocked in "<-answerCh" on channel ch.
receivers(ch) == {t \in BridgeTasks : askPc[t] = "waiting" /\ askP[t].answerCh = ch}

\* The initial render: UseBridge makes the Bridge whose handle the tasks keep.
BridgeFirstRender ==
  /\ uiPc = "start"
  /\ uiPc' = "select"
  /\ bobjs' = [bobjs EXCEPT !["handle"] = bcell]
  /\ uiRef' = "handle"
  /\ UNCHANGED <<refreshChan, bcell, uiSend, askPc, askP, askN, got, submitted,
                 askSinceSubmit, renderedSince>>

\* case <-r.refreshChan: render; UseBridge makes a new Bridge whose
\* interaction State holds the cell's value.
BridgeRender ==
  /\ uiPc = "select"
  /\ refreshChan > 0
  /\ refreshChan' = refreshChan - 1
  /\ bobjs' = [bobjs EXCEPT !["ui"] = bcell]
  /\ uiRef' = "ui"
  /\ renderedSince' = submitted
  /\ UNCHANGED <<bcell, uiPc, uiSend, askPc, askP, askN, got, submitted,
                 askSinceSubmit>>

\* Ask, to the write of s.Val in Set: make the channel, compare, assign.
AskBegin(t, q) ==
  LET p == [question |-> q, answerCh |-> makeChan(t, askN[t] + 1)] IN
  /\ uiPc /= "start"
  /\ askPc[t] = "idle"
  /\ askN[t] < MaxAsks
  /\ askN' = [askN EXCEPT ![t] = askN[t] + 1]
  /\ askP' = [askP EXCEPT ![t] = p]
  /\ IF DeepEqual(bobjs["handle"], p)
       THEN /\ askPc' = [askPc EXCEPT ![t] = "waiting"]
            /\ bobjs' = bobjs
       ELSE /\ askPc' = [askPc EXCEPT ![t] = "publishing"]
            /\ bobjs' = [bobjs EXCEPT !["handle"] = p]
  /\ askSinceSubmit' = TRUE
  /\ UNCHANGED <<refreshChan, bcell, uiRef, uiPc, uiSend, got, submitted, renderedSince>>

\* Ask, the rest of Set: setState and Refresh; then the task blocks.
AskPublish(t) ==
  /\ askPc[t] = "publishing"
  /\ bcell' = askP[t]
  /\ refreshChan' \in scheduleRefresh(refreshChan)
  /\ askPc' = [askPc EXCEPT ![t] = "waiting"]
  /\ askSinceSubmit' = TRUE
  /\ UNCHANGED <<bobjs, uiRef, uiPc, uiSend, askP, askN, got, submitted, renderedSince>>

\* Submit(a) from a handler of the latest render: "if b.interaction.Val != nil".
SubmitCall(a) ==
  /\ uiPc = "select"
  /\ uiSend' = [NoSend EXCEPT !.a = a]
  /\ uiPc' = IF bobjs[uiRef] /= NoInteraction THEN "eval" ELSE "select"
  /\ UNCHANGED <<refreshChan, bcell, bobjs, uiRef, askPc, askP, askN, got, submitted,
                 askSinceSubmit, renderedSince>>

\* Submit: the operand b.interaction.Val.answerCh of the send is read.
SubmitEval ==
  /\ uiPc = "eval"
  /\ uiSend' = [uiSend EXCEPT !.ch = bobjs[uiRef].answerCh,
                              !.shownQ = bobjs[uiRef].question]
  /\ uiPc' = "sending"
  /\ UNCHANGED <<refreshChan, bcell, bobjs, uiRef, askPc, askP, askN, got, submitted,
                 askSinceSubmit, renderedSince>>

\* The send on the unbuffered channel meets the receive of Ask, which returns.
SubmitSend(t) ==
  /\ uiPc = "sending"
  /\ t \in receivers(uiSend.ch)
  /\ askPc' = [askPc EXCEPT ![t] = "idle"]
  /\ got' = [got EXCEPT ![t] = [a |-> uiSend.a, shownQ |-> uiSend.shownQ,
                                q |-> askP[t].question]]
  /\ uiPc' = "clearing"
  /\ askSinceSubmit' = FALSE
  /\ UNCHANGED <<refreshChan, bcell, bobjs, uiRef, uiSend, askP, askN, submitted,
                 renderedSince>>

\* Submit returns.
submitReturns ==
  /\ uiPc' = "select"
  /\ submitted' = TRUE
  /\ renderedSince' = FALSE
  /\ UNCHANGED askSinceSubmit

\* Submit, interaction.Set(nil) to the write of s.Val.
SubmitClear ==
  /\ uiPc = "clearing"
  /\ IF DeepEqual(bobjs[uiRef], NoInteraction)
       THEN /\ submitReturns
            /\ bobjs' = bobjs
       ELSE /\ uiPc' = "clearing2"
            /\ bobjs' = [bobjs EXCEPT ![uiRef] = NoInteraction]
            /\ UNCHANGED <<submitted, askSinceSubmit, renderedSince>>
  /\ UNCHANGED <<refreshChan, bcell, uiRef, uiSend, askPc, askP, askN, got>>

\* Submit, the rest of Set(nil): setState and Refresh.
SubmitClearCell ==
  /\ uiPc = "clearing2"
  /\ bcell' = NoInteraction
  /\ refreshChan' \in scheduleRefresh(refreshChan)
  /\ submitReturns
  /\ UNCHANGED <<bobjs, uiRef, uiSend, askPc, askP, askN, got>>

NextBridge ==
  \/ BridgeFirstRender /\ UNCHANGED notBridge
  \/ BridgeRender /\ UNCHANGED notBridge
  \/ \E t \in BridgeTasks, q \in Questions : AskBegin(t, q) /\ UNCHANGED notBridge
  \/ \E t \in BridgeTasks : AskPublish(t) /\ UNCHANGED notBridge
  \/ \E a \in Answers : SubmitCall(a) /\ UNCHANGED notBridge
  \/ SubmitEval /\ UNCHANGED notBridge
  \/ \E t \in BridgeTasks : SubmitSend(t) /\ UNCHANGED notBridge
  \/ SubmitClear /\ UNCHANGED notBridge
  \/ SubmitClearCell /\ UNCHANGED notBridge

---------------------------------------------------------------------------
\* Bridge: Handle.Update.  UseBridge makes a Bridge, a handle and a State
\* object for "bridge_state" in every render; a background task keeps the
\* handle of the render that started it (the effect that runs
\* "go core.Run(bridge.Handle())").  Update holds the mutex of its handle.

PushObjs == {0, 1, 2}
PushInitial == 0
NoPushOp == [op |-> "none", val |-> Absent, changed |-> FALSE]

InitPush ==
  /\ pcell = Absent
  /\ pobjs = [o \in PushObjs |-> Absent]
  /\ puiRef = NoObj
  /\ puiPc = "start"
  /\ pmu = [o \in PushObjs |-> 0]
  /\ pushPc = [t \in BridgeTasks |-> "unborn"]
  /\ ptaskObj = [t \in BridgeTasks |-> NoObj]
  /\ plast = NoPushOp
  /\ lastPush = Absent
  /\ pdirty = FALSE

\* State.Set on the State object with value val while the cell holds cell:
\* the object's Val, the cell, and whether Refresh follows.
stateSetAlways(val, cell, value) ==
  [Val |-> value, cell |-> value, refreshed |-> TRUE]
stateSet(val, cell, value) ==
  IF DeepEqual(val, value)
    THEN [Val |-> val, cell |-> cell, refreshed |-> FALSE]
    ELSE [Val |-> value, cell |-> value, refreshed |-> TRUE]

\* The State object a pass allocates: one that no task's handle holds.
PushFreshObj == CHOOSE o \in PushObjs :
                  /\ \A t \in BridgeTasks : ptaskObj[t] /= o
                  /\ \A q \in PushObjs :
                       (\A t \in BridgeTasks : ptaskObj[t] /= q) => o <= q

\* A render pass, the initial one or the one after a receive from
\* refreshChan: UseBridge calls Use(c, "bridge_state", initial) and makes a
\* new Bridge, whose State() is the cell's value; the effects that run in
\* the pass start the tasks of spawn with the handle of this Bridge.
PushRender(spawn) ==
  LET v == IF pcell = Absent THEN PushInitial ELSE pcell IN
  /\ \/ puiPc = "start" /\ refreshChan' = refreshChan
     \/ puiPc = "select" /\ refreshChan > 0 /\ refreshChan' = refreshChan - 1
  /\ spawn \subseteq {t \in BridgeTasks : pushPc[t] = "unborn"}
  /\ puiPc' = "select"
  /\ pcell' = v
  /\ pobjs' = [pobjs EXCEPT ![PushFreshObj] = v]
  /\ puiRef' = PushFreshObj
  /\ ptaskObj' = [t \in BridgeTasks |-> IF t \in spawn THEN PushFreshObj ELSE ptaskObj[t]]
  /\ pushPc' = [t \in BridgeTasks |-> IF t \in spawn THEN "idle" ELSE pushPc[t]]
  /\ plast' = [NoPushOp EXCEPT !.op = "render", !.val = v]
  /\ pdirty' = FALSE
  /\ UNCHANGED <<pmu, lastPush>>

\* case <-r.quitChan: Run returns; no pass runs any more.
PushLoopQuit ==
  /\ puiPc = "select"
  /\ puiPc' = "done"
  /\ plast' = [NoPushOp EXCEPT !.op = "quit"]
  /\ UNCHANGED <<refreshChan, pcell, pobjs, puiRef, pmu, pushPc, ptaskObj, lastPush,
                 pdirty>>

\* Update(v): h.mu.Lock(), then Set to the write of the cell; when Set is
\* suppressed Update returns and unlocks.
PushUpdate(t, v) ==
  LET o == ptaskObj[t]
      r == stateSet(pobjs[o], pcell, v) IN
  /\ pushPc[t] = "idle"
  /\ pmu[o] = 0
  /\ pobjs' = [pobjs EXCEPT ![o] = r.Val]
  /\ pcell' = r.cell
  /\ pmu' = [pmu EXCEPT ![o] = IF r.refreshed THEN t ELSE 0]
  /\ pushPc' = [pushPc EXCEPT ![t] = IF r.refreshed THEN "refresh" ELSE "idle"]
  /\ plast' = [op |-> "update", val |-> v, changed |-> r.refreshed]
  /\ lastPush' = v
  /\ pdirty' = (pdirty \/ r.cell /= pcell)
  /\ UNCHANGED <<refreshChan, puiRef, puiPc, ptaskObj>>

\* The end of Set in Update: s.ctx.Refresh(); then the deferred Unlock.
PushRefresh(t) ==
  /\ pushPc[t] = "refresh"
  /\ refreshChan' \in scheduleRefresh(refreshChan)
  /\ pmu' = [pmu EXCEPT ![ptaskObj[t]] = 0]
  /\ pushPc' = [pushPc EXCEPT ![t] = "idle"]
  /\ plast' = [NoPushOp EXCEPT !.op = "refresh"]
  /\ UNCHANGED <<pcell, pobjs, puiRef, puiPc, ptaskObj, lastPush, pdirty>>

NextPush ==
  \/ \E spawn \in SUBSET BridgeTasks : PushRender(spawn) /\ UNCHANGED notPush
  \/ PushLoopQuit /\ UNCHANGED notPush
  \/ \E t \in BridgeTasks, v \in Vals : PushUpdate(t, v) /\ UNCHANGED notPush
  \/ \E t \in BridgeTasks : PushRefresh(t) /\ UNCHANGED notPush

---------------------------------------------------------------------------
\* UseMemo on one record: memo slots by call order.

MemoIdx == 0..(MaxMemos - 1)
NoMemoSlot == [exists |-> FALSE, deps |-> <<>>, value |-> 0]
NoMemo == [op |-> "none", idx |-> 0, deps |-> <<>>, fnValue |-> 0, computed |-> FALSE,
           returned |-> 0, prev |-> NoMemoSlot]

\* The body of UseMemo on a slot (nil: exists is FALSE): the slot
\* afterwards, whether fn was invoked, and the value returned.  fnValue is
\* what fn returns when invoked.
UseMemoKeepDeps(slot, deps, fnValue) ==
  IF (~slot.exists) \/ ~depsEqual(slot.deps, deps)
    THEN [slot |-> [exists |-> TRUE,
                    deps |-> IF slot.exists THEN slot.deps ELSE deps,
                    value |-> fnValue],
          computed |-> TRUE, returned |-> fnValue]
    ELSE [slot |-> slot, computed |-> FALSE, returned |-> slot.value]
UseMemoResult(slot, deps, fnValue) ==
  IF (~slot.exists) \/ ~depsEqual(slot.deps, deps)
    THEN [slot |-> [exists |-> TRUE, deps |-> deps, value |-> fnValue],
          computed |-> TRUE, returned |-> fnValue]
    ELSE [slot |-> slot, computed |-> FALSE, returned |-> slot.value]

InitMemo ==
  /\ memos = [i \in MemoIdx |-> NoMemoSlot]
  /\ memoIndex = 0
  /\ mlast = NoMemo
  /\ mprev = [i \in MemoIdx |-> NoMemoSlot]

\* componentContext.reset, the part that concerns memos.
resetMemos ==
  /\ memoIndex' = 0
  /\ mlast' = NoMemo
  /\ UNCHANGED <<memos, mprev>>

\* UseMemo(c, fn, deps...): the next slot by call order.
UseMemo(deps, fnValue) ==
  LET key == memoIndex
      r == UseMemoResult(memos[key], deps, fnValue) IN
  /\ key \in MemoIdx
  /\ memoIndex' = key + 1
  /\ memos' = [memos EXCEPT ![key] = r.slot]
  /\ mlast' = [op |-> "UseMemo", idx |-> key, deps |-> deps, fnValue |-> fnValue,
               computed |-> r.computed, returned |-> r.returned, prev |-> mprev[key]]
  /\ mprev' = IF r.computed
                THEN [mprev EXCEPT ![key] = [exists |-> TRUE, deps |-> deps,
                                             value |-> fnValue]]
                ELSE mprev

NextMemo ==
  \/ resetMemos /\ UNCHANGED notMemo
  \/ \E d \in DepLists, v \in Vals : UseMemo(d, v) /\ UNCHANGED notMemo

---------------------------------------------------------------------------
\* UseRef on one record: ref cells by call order.  A cell is named by the
\* key of refs under which it is stored.

RefIdx == 0..(MaxRefs - 1)
SurrogateMin == 55296
SurrogateMax == 57343
MaxRune == 1114111
ReplacementChar == 65533

\* "__ref__" + string(rune(refIndex)): the conversion yields the code
\* point, and U+FFFD for a value that is not a valid code point.
refKeyConstant(i) == 0
refKey(i) ==
  IF (i >= SurrogateMin /\ i <= SurrogateMax) \/ i > MaxRune \/ i < 0
    THEN ReplacementChar
    ELSE i

RefKeys == {refKey(i) : i \in RefIdx}
NoRefCell == [exists |-> FALSE, Current |-> Absent]
NoRefOp == [op |-> "none", idx |-> 0, cell |-> Absent, initial |-> Absent,
            read |-> Absent, created |-> FALSE]

InitRef ==
  /\ refs = [k \in RefKeys |-> NoRefCell]
  /\ refIndex = 0
  /\ rlast = NoRefOp
  /\ firstCell = [i \in RefIdx |-> Absent]
  /\ expected = [i \in RefIdx |-> Absent]

\* componentContext.reset, the part that concerns refs.
resetRefs ==
  /\ refIndex' = 0
  /\ rlast' = NoRefOp
  /\ UNCHANGED <<refs, firstCell, expected>>

\* UseRef(c, initial): the cell of the next index by call order.
UseRef(initial) ==
  LET key == refKey(refIndex)
      existing == refs[key].exists IN
  /\ refIndex \in RefIdx
  /\ refIndex' = refIndex + 1
  /\ refs' = IF existing THEN refs
                         ELSE [refs EXCEPT ![key] = [exists |-> TRUE, Current |-> initial]]
  /\ rlast' = [op |-> "UseRef", idx |-> refIndex, cell |-> key, initial |-> initial,
               read |-> refs'[key].Current, created |-> ~existing]
  /\ firstCell' = IF firstCell[refIndex] = Absent
                    THEN [firstCell EXCEPT ![refIndex] = key] ELSE firstCell
  /\ expected' = IF firstCell[refIndex] = Absent
                   THEN [expected EXCEPT ![refIndex] = initial] ELSE expected

\* "ref.Current = v" by a handler, an effect or a task that holds the cell
\* returned to the idx-th call.
RefAssign(idx, v) ==
  /\ firstCell[idx] /= Absent
  /\ refs' = [refs EXCEPT ![firstCell[idx]].Current = v]
  /\ rlast' = [NoRefOp EXCEPT !.op = "assign", !.idx = idx, !.cell = firstCell[idx],
                              !.read = v]
  /\ expected' = [expected EXCEPT ![idx] = v]
  /\ UNCHANGED <<refIndex, firstCell>>

NextRef ==
  \/ resetRefs /\ UNCHANGED notRef
  \/ \E v \in Vals : UseRef(v) /\ UNCHANGED notRef
  \/ \E i \in RefIdx, v \in Vals : RefAssign(i, v) /\ UNCHANGED notRef

---------------------------------------------------------------------------
\* componentContext.Child: lazily created child records.  A record is named
\* by the id it received when newComponentContext allocated it; the
\* children map of a parent is the set of records with that parent.

RootId == 0
ChildIds == {1, 2}
NoIndex == -1
\* The arguments of a Child call: key and optional index.
ChildReqs == {<<"item", NoIndex>>, <<"item", 0>>, <<"item[0]", NoIndex>>,
              <<"item", 1>>}

\* fmt.Sprintf("%s[%d]", key, index[0]) when an index is given.
fullKey(key, index) ==
  IF index = NoIndex THEN key ELSE key \o "[" \o ToString(index) \o "]"

NoRecord == [exists |-> FALSE, parent |-> RootId, key |-> "",
             states |-> FALSE, effects |-> FALSE, refs |-> FALSE, memos |-> FALSE,
             hookIndex |-> 0, handlers |-> FALSE]

\* newComponentContext(key, parent, runtime): empty maps, zero indexes.
newComponentContext(key, parent) ==
  [NoRecord EXCEPT !.exists = TRUE, !.parent = parent, !.key = key]

\* componentContext.reset: the hook indexes and the two handlers.
resetStores(rec) == newComponentContext(rec.key, rec.parent)
reset(rec) == [rec EXCEPT !.hookIndex = 0, !.handlers = FALSE]

NoChildOp == [op |-> "none", parent |-> RootId, req |-> <<"", NoIndex>>, id |-> 0,
              created |-> FALSE, first |-> FALSE]

InitChild ==
  /\ crecs = [i \in ChildIds |-> NoRecord]
  /\ requested = [i \in ChildIds |-> FALSE]
  /\ clast = NoChildOp
  /\ cfirst = [p \in {RootId} \cup ChildIds, q \in ChildReqs |-> 0]
  /\ cfilled = [i \in ChildIds |-> FALSE]
  /\ skipped = [i \in ChildIds |-> FALSE]

\* The start of a render pass: Runtime.render resets the root; no child has
\* been requested yet.
ChildPass ==
  /\ requested' = [i \in ChildIds |-> FALSE]
  /\ skipped' = [i \in ChildIds |-> skipped[i] \/ (crecs[i].exists /\ ~requested[i])]
  /\ clast' = NoChildOp
  /\ UNCHANGED <<crecs, cfirst, cfilled>>

\* parent.Child(key, index...) during the pass, by the root or by a record
\* that the pass has requested.
Child(p, q) ==
  LET fk == fullKey(q[1], q[2])
      found == {i \in ChildIds : crecs[i].exists /\ crecs[i].parent = p
                                  /\ crecs[i].key = fk}
      free == {i \in ChildIds : ~crecs[i].exists} IN
  /\ IF p = RootId THEN TRUE ELSE crecs[p].exists /\ requested[p]
  /\ found /= {} \/ free /= {}
  /\ LET id == IF found /= {} THEN CHOOSE i \in found : TRUE
                            ELSE CHOOSE i \in free : \A j \in free : i <= j IN
     /\ crecs' = [crecs EXCEPT ![id] = IF found /= {} THEN reset(crecs[id])
                                       ELSE newComponentContext(fk, p)]
     /\ requested' = [requested EXCEPT ![id] = TRUE]
     /\ clast' = [op |-> "Child", parent |-> p, req |-> q, id |-> id,
                  created |-> (found = {}), first |-> (cfirst[p, q] = 0)]
     /\ cfirst' = IF cfirst[p, q] = 0 THEN [cfirst EXCEPT ![p, q] = id] ELSE cfirst
  /\ UNCHANGED <<cfilled, skipped>>

\* The body of the component that received the record: it calls Use,
\* UseEffect, UseRef, UseMemo and UseKey, which store into the record.
ChildBody(id) ==
  /\ crecs[id].exists /\ requested[id]
  /\ crecs' = [crecs EXCEPT ![id] = [@ EXCEPT !.states = TRUE, !.effects = TRUE,
                                              !.refs = TRUE, !.memos = TRUE,
                                              !.hookIndex = 1, !.handlers = TRUE]]
  /\ cfilled' = [cfilled EXCEPT ![id] = TRUE]
  /\ clast' = [NoChildOp EXCEPT !.op = "body", !.id = id]
  /\ UNCHANGED <<requested, cfirst, skipped>>

NextChild ==
  \/ ChildPass /\ UNCHANGED notChild
  \/ \E p \in {RootId} \cup ChildIds, q \in ChildReqs : Child(p, q) /\ UNCHANGED notChild
  \/ \E i \in ChildIds : ChildBody(i) /\ UNCHANGED notChild

---------------------------------------------------------------------------
\* Effect cleanups over the tree: the root and one child record, slot 0 of
\* each.  Every body run that returns a cleanup returns a new closure,
\* named by a number; 0 is the nil cleanup.

MaxCallbacks == 3
CleanupRecs == {"root", "child"}
Callbacks == 1..MaxCallbacks
CleanupDeps == {<<1>>, <<2>>}
FaultAt == {"none", "root", "child"}
NoCleanupOp == [op |-> "none", panicked |-> FALSE]

\* UseEffect on a slot, with a body that returns ret or, when fault holds,
\* panics: the stored cleanup has been called by then and the slot's fields
\* are assigned only after the body has returned.
UseEffectStep(slot, deps, ret, fault) ==
  IF (~slot.ran) \/ ~depsEqual(slot.deps, deps)
    THEN [slot |-> IF fault THEN [slot EXCEPT !.exists = TRUE]
                            ELSE [exists |-> TRUE, deps |-> deps, cleanup |-> ret,
                                  ran |-> TRUE],
          called |-> slot.cleanup, ranBody |-> TRUE, panicked |-> fault]
    ELSE [slot |-> [slot EXCEPT !.exists = TRUE], called |-> 0, ranBody |-> FALSE,
          panicked |-> FALSE]

\* componentContext.cleanup: the cleanups it calls, this record's slots and
\* then those of every child in the children map.
cleanupCalls(slots) == {slots[c].cleanup : c \in CleanupRecs} \ {0}

bump(inv, ids) == [cb \in Callbacks |-> IF cb \in ids THEN inv[cb] + 1 ELSE inv[cb]]

InitCleanup ==
  /\ cslots = [c \in CleanupRecs |-> NoSlot]
  /\ cupc = "select"
  /\ cuquit = FALSE
  /\ cupanic = FALSE
  /\ cbNext = 1
  /\ mounted = FALSE
  /\ invoked = [cb \in Callbacks |-> 0]
  /\ culast = NoCleanupOp

\* Runtime.render while lastPanic is nil: the root's body calls UseEffect
\* and, if it requests the child, the child's body calls UseEffect.  A panic
\* of an effect body ends the pass and is recovered into lastPanic.
CleanupRender(reqChild, dRoot, dChild, newRoot, newChild, fault) ==
  LET idRoot == IF newRoot THEN cbNext ELSE 0
      r1 == UseEffectStep(cslots["root"], dRoot, idRoot, fault = "root")
      next1 == IF r1.ranBody /\ ~r1.panicked /\ newRoot THEN cbNext + 1 ELSE cbNext
      doChild == reqChild /\ ~r1.panicked
      idChild == IF newChild THEN next1 ELSE 0
      r2 == UseEffectStep(cslots["child"], dChild, idChild, fault = "child")
      next2 == IF doChild /\ r2.ranBody /\ ~r2.panicked /\ newChild
                 THEN next1 + 1 ELSE next1 IN
  /\ cupc = "select" /\ ~cupanic
  /\ next2 <= MaxCallbacks + 1
  /\ cslots' = [cslots EXCEPT !["root"] = r1.slot,
                              !["child"] = IF doChild THEN r2.slot ELSE @]
  /\ cbNext' = next2
  /\ invoked' = bump(invoked, ({r1.called} \cup (IF doChild THEN {r2.called} ELSE {}))
                                \ {0})
  /\ cupanic' = (r1.panicked \/ (doChild /\ r2.panicked))
  /\ mounted' = doChild
  /\ culast' = [op |-> "render", panicked |-> cupanic']
  /\ UNCHANGED <<cupc, cuquit>>

\* Runtime.quit called by handleEvent (Ctrl+C) or by a handler (c.Quit):
\* close(quitChan).  Closing the closed channel panics on the main
\* goroutine: Run's deferred function runs and the panic leaves Run.
CleanupQuit ==
  /\ cupc = "select"
  /\ cuquit' = TRUE
  /\ cupc' = IF cuquit THEN "crashed" ELSE cupc
  /\ invoked' = IF cuquit THEN bump(invoked, cleanupCalls(cslots)) ELSE invoked
  /\ culast' = [op |-> "quit", panicked |-> FALSE]
  /\ UNCHANGED <<cslots, cupanic, cbNext, mounted>>

\* "case <-r.quitChan: return nil", and the deferred rootContext.cleanup().
CleanupExit ==
  /\ cupc = "select" /\ cuquit
  /\ cupc' = "done"
  /\ invoked' = bump(invoked, cleanupCalls(cslots))
  /\ culast' = [op |-> "exit", panicked |-> FALSE]
  /\ UNCHANGED <<cslots, cuquit, cupanic, cbNext, mounted>>

NextCleanup ==
  \/ \E reqChild, newRoot, newChild \in BOOLEAN, dRoot, dChild \in CleanupDeps,
        fault \in FaultAt :
        CleanupRender(reqChild, dRoot, dChild, newRoot, newChild, fault)
          /\ UNCHANGED notCleanup
  \/ CleanupQuit /\ UNCHANGED notCleanup
  \/ CleanupExit /\ UNCHANGED notCleanup

---------------------------------------------------------------------------
\* Input handling around a render fault: a root component that registers a
\* key handler writing a state cell, and focusable components with the
\* pointer handler of UseFocus.

DiagRegs == {<<>>, <<"A">>, <<"A", "B">>}
NoDiagOp == [op |-> "none", key |-> "", invoked |-> FALSE, panicBefore |-> FALSE,
             focusBefore |-> NoKey, cellBefore |-> 0]

InitDiag ==
  /\ dpc = "start"
  /\ dpanic = FALSE
  /\ dquit = FALSE
  /\ dfm = newFocusManager
  /\ dkey = FALSE
  /\ dmouse = NoKey
  /\ dcell = 0
  /\ dobj = 0
  /\ dlast = NoDiagOp

\* Runtime.render: the initial pass, or the pass of "case <-r.refreshChan".
\* With lastPanic set it draws the error screen and returns.  Otherwise it
\* resets the root and the focus manager and runs the root: regs are the
\* UseFocus registrations, useKey tells whether UseKey was called, click the
\* key of the component whose UseFocus handler is the root's mouseHandler;
\* with fault the pass panics after these calls and lastPanic is set.
DiagRender(regs, useKey, click, fault) ==
  /\ ~dquit
  /\ \/ dpc = "start" /\ UNCHANGED refreshChan
     \/ dpc = "select" /\ refreshChan > 0 /\ refreshChan' = refreshChan - 1
  /\ dpc' = "select"
  /\ IF dpanic
       THEN UNCHANGED <<dpanic, dfm, dkey, dmouse, dobj>>
       ELSE /\ dfm' = RegisterAll(Reset(dfm), regs)
            /\ dkey' = useKey
            /\ dmouse' = IF click \in dfm'.focusMap THEN click ELSE NoKey
            /\ dobj' = dcell
            /\ dpanic' = fault
  /\ dlast' = NoDiagOp
  /\ UNCHANGED <<dquit, dcell>>

\* Runtime.handleEvent on a key event.  The key handler of the root calls
\* Set(v) on its State object.
DiagKeyEvent(key, v) ==
  LET runs == key \notin {"CtrlC", "Tab", "ShiftTab"} /\ dkey
      writes == runs /\ ~DeepEqual(dobj, v) IN
  /\ dpc = "select" /\ ~dquit
  /\ dquit' = (key = "CtrlC")
  /\ dfm' = IF key = "Tab" THEN Next(dfm) ELSE IF key = "ShiftTab" THEN Prev(dfm) ELSE dfm
  /\ dcell' = IF writes THEN v ELSE dcell
  /\ dobj' = IF writes THEN v ELSE dobj
  /\ refreshChan' \in (IF key \in {"Tab", "ShiftTab"} \/ writes
                         THEN scheduleRefresh(refreshChan) ELSE {refreshChan})
  /\ dlast' = [op |-> "key", key |-> key, invoked |-> runs, panicBefore |-> dpanic,
               focusBefore |-> dfm.currentKey, cellBefore |-> dcell]
  /\ UNCHANGED <<dpc, dpanic, dkey, dmouse>>

\* Runtime.handleEvent on a primary-button click inside the rectangle of the
\* root: the handler set by UseFocus calls Focus(focusKey) and Refresh.
DiagMouseEvent ==
  /\ dpc = "select" /\ ~dquit
  /\ dfm' = IF dmouse /= NoKey THEN Focus(dfm, dmouse) ELSE dfm
  /\ refreshChan' \in (IF dmouse /= NoKey THEN scheduleRefresh(refreshChan)
                                          ELSE {refreshChan})
  /\ dlast' = [op |-> "mouse", key |-> "", invoked |-> (dmouse /= NoKey),
               panicBefore |-> dpanic, focusBefore |-> dfm.currentKey,
               cellBefore |-> dcell]
  /\ UNCHANGED <<dpc, dpanic, dquit, dkey, dmouse, dcell, dobj>>

NextDiag ==
  \/ \E regs \in DiagRegs, useKey, fault \in BOOLEAN, click \in {"A", "B"} :
        DiagRender(regs, useKey, click, fault) /\ UNCHANGED notDiag
  \/ \E key \in KeyEvents, v \in Vals : DiagKeyEvent(key, v) /\ UNCHANGED notDiag
  \/ DiagMouseEvent /\ UNCHANGED notDiag

---------------------------------------------------------------------------
\* UseFocus and pointer events: components a and b below the root, and a/x
\* inside a.  Every rendered component returns c.Wrap(...), so the pass
\* records its rectangle.

ClickComps == {<<"a">>, <<"a", "x">>, <<"b">>}
RenderOrder == <<(<<"a">>), (<<"a", "x">>), (<<"b">>)>>
\* The orders in which dispatchMouseEvent can visit the records: the range
\* over the root's children map is unordered, a is visited before a/x.
ClickOrders == {<<(<<"a">>), (<<"a", "x">>), (<<"b">>)>>,
                <<(<<"b">>), (<<"a">>), (<<"a", "x">>)>>}

ZeroRect == [X |-> 0, Y |-> 0, W |-> 0, H |-> 0]
\* The layouts a pass can produce: the rectangle of a/x lies inside that of
\* a, at its left or at its right end.
Layouts ==
  {[c \in ClickComps |->
      IF c = <<"a">> THEN [X |-> 0, Y |-> 0, W |-> 2, H |-> 1]
      ELSE IF c = <<"a", "x">> THEN [X |-> ax, Y |-> 0, W |-> 1, H |-> 1]
      ELSE [X |-> 2, Y |-> 0, W |-> 1, H |-> 1]] : ax \in {0, 1}}
\* The pointer events of the model: primary clicks along the row and below
\* it, a secondary click and a move.
MouseEvents ==
  {[x |-> x, y |-> 0, button |-> "left", type |-> "click"] : x \in 0..3}
    \cup {[x |-> 0, y |-> 1, button |-> "left", type |-> "click"],
          [x |-> 0, y |-> 0, button |-> "right", type |-> "click"],
          [x |-> 2, y |-> 0, button |-> "left", type |-> "move"]}

\* Rect.Contains
Contains(r, x, y) == x >= r.X /\ x < r.X + r.W /\ y >= r.Y /\ y < r.Y + r.H

\* componentContext.focusKey: the path of keys from the root.
RECURSIVE focusKey(_)
focusKey(p) == IF p = <<>> THEN "root" ELSE focusKey(ParentOf(p)) \o "/" \o p[Len(p)]

NoClick == [op |-> "none", x |-> 0, y |-> 0, button |-> "left", type |-> "move",
            before |-> NoKey, delivered |-> <<>>]

InitClick ==
  /\ kpc = "start"
  /\ krect = [c \in ClickComps |-> ZeroRect]
  /\ kmouse = [c \in ClickComps |-> "nil"]
  /\ kfm = newFocusManager
  /\ kfocusable = {}
  /\ klast = NoClick

\* The keys registered by the UseFocus calls of a pass, in render order.
RECURSIVE regsOf(_, _)
regsOf(F, i) ==
  IF i > Len(RenderOrder) THEN <<>>
  ELSE (IF RenderOrder[i] \in F THEN <<focusKey(RenderOrder[i])>> ELSE <<>>)
         \o regsOf(F, i + 1)

\* One render pass: R are the components rendered (Child resets their
\* handlers), F those whose body calls UseFocus, M those of F whose body calls
\* UseMouse after that with a handler of their own, layout the rectangles
\* componentNode.render records.  A component that is not rendered keeps
\* its handler and its rectangle.
ClickRender(R, F, M, layout) ==
  /\ \/ kpc = "start" /\ UNCHANGED refreshChan
     \/ kpc = "select" /\ refreshChan > 0 /\ refreshChan' = refreshChan - 1
  /\ \A c \in R : Len(c) = 1 \/ ParentOf(c) \in R
  /\ kpc' = "select"
  /\ kfm' = RegisterAll(Reset(kfm), regsOf(F, 1))
  /\ kmouse' = [c \in ClickComps |->
                  IF c \notin R THEN kmouse[c]
                  ELSE IF c \in M THEN "user"
                  ELSE IF c \in F THEN "focus" ELSE "nil"]
  /\ krect' = [c \in ClickComps |-> IF c \in R THEN layout[c] ELSE krect[c]]
  /\ kfocusable' = F
  /\ klast' = NoClick

\* dispatchMouseEvent on one record: an event outside the rectangle is
\* passed on as a move; the handler set by UseFocus calls Focus(focusKey)
\* on a primary-button click inside the rectangle.
focusCalled(c, ev) ==
  LET inRect == Contains(krect[c], ev.x, ev.y)
      evIn == IF inRect THEN ev ELSE [ev EXCEPT !.type = "move"] IN
  /\ kmouse[c] = "focus"
  /\ evIn.type = "click" /\ evIn.button = "left"
  /\ Contains(krect[c], evIn.x, evIn.y)

\* dispatchMouseEvent on one record: the event its handler is called with.
eventIn(c, ev) ==
  IF Contains(krect[c], ev.x, ev.y) THEN ev ELSE [ev EXCEPT !.type = "move"]

\* The records visited in order: the handlers called and the event each
\* was called with.
RECURSIVE mouseCalls(_, _, _)
mouseCalls(ord, i, ev) ==
  IF i > Len(ord) THEN <<>>
  ELSE (IF kmouse[ord[i]] # "nil"
        THEN <<[rec |-> ord[i], ev |-> eventIn(ord[i], ev)]>> ELSE <<>>)
         \o mouseCalls(ord, i + 1, ev)

\* The records visited in order: the focus manager after their handlers.
RECURSIVE dispatchClick(_, _, _, _)
dispatchClick(m, ord, i, ev) ==
  IF i > Len(ord) THEN m
  ELSE dispatchClick(IF focusCalled(ord[i], ev) THEN Focus(m, focusKey(ord[i])) ELSE m,
                     ord, i + 1, ev)

\* Runtime.handleEvent on a pointer event.
ClickEvent(ev, ord) ==
  /\ kpc = "select"
  /\ kfm' = dispatchClick(kfm, ord, 1, ev)
  /\ refreshChan' \in (IF \E c \in ClickComps : focusCalled(c, ev)
                         THEN scheduleRefresh(refreshChan) ELSE {refreshChan})
  /\ klast' = [op |-> "event", x |-> ev.x, y |-> ev.y, button |-> ev.button,
               type |-> ev.type, before |-> kfm.currentKey,
               delivered |-> mouseCalls(ord, 1, ev)]
  /\ UNCHANGED <<kpc, krect, kmouse, kfocusable>>

NextClick ==
  \/ \E R \in SUBSET ClickComps : \E F \in SUBSET R : \E M \in SUBSET F, layout \in Layouts :
        ClickRender(R, F, M, layout) /\ UNCHANGED notClick
  \/ \E ev \in MouseEvents, ord \in ClickOrders : ClickEvent(ev, ord) /\ UNCHANGED notClick

---------------------------------------------------------------------------
\* Layout: the node tree and its two passes, measureNodeHeight and render
\* (src/unnamed/part_000, src/box.go).  A node is a record of one shape for
\* every node type; the fields a type does not have keep their zero value.
\* Text content is a run of `len` single-width runes without newlines.
\* Columns are not tracked: render yields the used height, the set of
\* screen rows it wrote to, and, for a stack, what it granted its children.

MaxWidth    == 3
MaxHeight   == 10
MaxGap      == 1
MaxPadding  == 1
MaxChildren == 3

Aligns == {"AlignLeft", "AlignCenter", "AlignRight"}

defaultStyle ==
  [type |-> "emptyNode", len |-> 0, wrap |-> FALSE, flex |-> 0, height |-> 0,
   border |-> FALSE, paddingV |-> 0, paddingH |-> 0, gap |-> 0,
   justify |-> "AlignLeft", children |-> <<>>]

Text(len)        == [defaultStyle EXCEPT !.type = "textNode", !.len = len]
Wrap(t, w)       == [t EXCEPT !.wrap = w]
Empty            == defaultStyle
Spacer           == [defaultStyle EXCEPT !.type = "spacerNode"]
Divider          == [defaultStyle EXCEPT !.type = "dividerNode"]
Box(child)       == [defaultStyle EXCEPT !.type = "boxNode", !.children = <<child>>]
VStack(kids) == [defaultStyle EXCEPT !.type = "vstackNode", !.children = kids]
HStack(kids) == [defaultStyle EXCEPT !.type = "hstackNode", !.children = kids]
Flex(n, f)       == [n EXCEPT !.flex = f]
Height(n, h)     == [n EXCEPT !.height = h]
Border(n)        == [n EXCEPT !.border = TRUE]
Padding(n, v, h) == [n EXCEPT !.paddingV = v, !.paddingH = h]
Gap(n, g)        == [n EXCEPT !.gap = g]
Justify(n, a)    == [n EXCEPT !.justify = a]

\* Go's integer division truncates toward zero.
goDiv(a, b) == IF a >= 0 THEN a \div b ELSE -((-a) \div b)

\* child.(flexNode): the node types that have getFlex and getHeight.
isFlexNode(n) == n.type \in {"vstackNode", "hstackNode", "boxNode", "spacerNode"}
getFlex(n)    == IF n.type = "spacerNode" THEN 1 ELSE n.flex

borderSize(n) == IF n.border THEN 1 ELSE 0

RECURSIVE measureWrap(_, _, _, _)
measureWrap(remaining, currentX, lines, width) ==
  IF remaining = 0 THEN lines
  ELSE IF currentX + 1 > width
       THEN measureWrap(remaining - 1, 1, lines + 1, width)
       ELSE measureWrap(remaining - 1, currentX + 1, lines, width)

RECURSIVE measureNodeHeight(_, _)
RECURSIVE sumHeights(_, _, _)
sumHeights(kids, i, width) ==
  IF i > Len(kids) THEN 0
  ELSE measureNodeHeight(kids[i], width) + sumHeights(kids, i + 1, width)

RECURSIVE maxHeights(_, _, _)
maxHeights(kids, i, width) ==
  IF i > Len(kids) THEN 0
  ELSE LET h    == measureNodeHeight(kids[i], width)
           rest == maxHeights(kids, i + 1, width)
       IN IF h > rest THEN h ELSE rest

measureHeight(v, width) ==
  LET innerWidth == width - 2 * v.paddingH
      count      == Len(v.children)
  IN IF innerWidth <= 0 THEN 2 * v.paddingV
     ELSE sumHeights(v.children, 1, innerWidth)
          + (IF count > 1 THEN (count - 1) * v.gap ELSE 0) + 2 * v.paddingV

measureNodeHeight(n, width) ==
  CASE n.type = "textNode" ->
         IF ~n.wrap \/ width <= 0 THEN 1 ELSE measureWrap(n.len, 0, 1, width)
    [] n.type = "vstackNode" -> measureHeight(n, width)
    [] n.type = "hstackNode" ->
         IF Len(n.children) = 0 THEN 0
         ELSE maxHeights(n.children, 1, goDiv(width, Len(n.children)))
    [] n.type = "boxNode" ->
         IF n.height > 0 THEN n.height
         ELSE LET innerW      == width - 2 * borderSize(n) - 2 * n.paddingH
                  innerHeight == IF Len(n.children) = 0 THEN 1
                                 ELSE measureNodeHeight(n.children[1], innerW)
              IN IF innerHeight = 0 THEN 0
                 ELSE innerHeight + 2 * borderSize(n) + 2 * n.paddingV
    [] n.type = "dividerNode" -> 1
    [] OTHER -> 0

RECURSIVE measureWidth(_)
RECURSIVE sumWidths(_, _)
sumWidths(kids, i) ==
  IF i > Len(kids) THEN 0
  ELSE measureWidth(kids[i]) + sumWidths(kids, i + 1)

RECURSIVE maxWidths(_, _)
maxWidths(kids, i) ==
  IF i > Len(kids) THEN 0
  ELSE LET w    == measureWidth(kids[i])
           rest == maxWidths(kids, i + 1)
       IN IF w > rest THEN w ELSE rest

DefaultWidth == 10

measureWidth(n) ==
  CASE n.type = "textNode"   -> n.len
    [] n.type = "boxNode"    ->
         (IF Len(n.children) = 0 THEN 0 ELSE measureWidth(n.children[1]))
         + 2 * n.paddingH + 2 * borderSize(n)
    [] n.type = "spacerNode" -> 0
    [] n.type = "hstackNode" ->
         sumWidths(n.children, 1)
         + (IF Len(n.children) > 1 THEN (Len(n.children) - 1) * n.gap ELSE 0)
    [] n.type = "vstackNode" -> maxWidths(n.children, 1)
    [] n.type = "emptyNode"  -> 0
    [] OTHER -> DefaultWidth

getChildFlex(n) == IF n.type = "spacerNode" THEN 1
                   ELSE IF n.type \in {"textNode", "boxNode", "vstackNode", "hstackNode"}
                        THEN n.flex ELSE 0

RECURSIVE sumFlex(_, _)
sumFlex(kids, i) ==
  IF i > Len(kids) THEN 0
  ELSE (IF isFlexNode(kids[i]) /\ getFlex(kids[i]) > 0
        THEN getFlex(kids[i]) ELSE 0) + sumFlex(kids, i + 1)

RECURSIVE sumFixedHeight(_, _, _)
sumFixedHeight(kids, i, width) ==
  IF i > Len(kids) THEN 0
  ELSE (IF isFlexNode(kids[i]) /\ getFlex(kids[i]) > 0
        THEN 0 ELSE measureNodeHeight(kids[i], width))
       + sumFixedHeight(kids, i + 1, width)

RECURSIVE sumChildFlex(_, _)
sumChildFlex(kids, i) ==
  IF i > Len(kids) THEN 0
  ELSE (IF getChildFlex(kids[i]) > 0 THEN getChildFlex(kids[i]) ELSE 0)
       + sumChildFlex(kids, i + 1)

RECURSIVE sumFixedWidth(_, _)
sumFixedWidth(kids, i) ==
  IF i > Len(kids) THEN 0
  ELSE (IF getChildFlex(kids[i]) > 0 THEN 0 ELSE measureWidth(kids[i]))
       + sumFixedWidth(kids, i + 1)

\* What a render call yields: used height, rows written, the heights (widths
\* in an hstack) granted to the children it rendered, and the offset of the
\* first rendered child from the start of the stack's inner area.
NoOffset == -1
Drawn(used, rows) == [used |-> used, rows |-> rows, grants |-> <<>>, first |-> NoOffset]

\* fixedHeight and remainingHeight of vstackNode.render for inner size
\* width x height.
fixedHeightOf(v, width) ==
  (IF Len(v.children) > 1 THEN (Len(v.children) - 1) * v.gap ELSE 0)
  + sumFixedHeight(v.children, 1, width)
remainingHeightOf(v, width, height) ==
  IF height - fixedHeightOf(v, width) < 0 THEN 0 ELSE height - fixedHeightOf(v, width)

\* justifyOffset without the halving for AlignCenter.
justifyOffsetWhole(justify, total, size) ==
  IF justify \in {"AlignCenter", "AlignRight"} /\ total < size THEN size - total ELSE 0

\* The start offset chosen by Justify for content of size total in size.
justifyOffset(justify, total, size) ==
  CASE justify = "AlignCenter" /\ total < size -> goDiv(size - total, 2)
    [] justify = "AlignRight"  /\ total < size -> size - total
    [] OTHER -> 0

RECURSIVE textWrapLoop(_, _, _, _, _, _, _)
textWrapLoop(remaining, currentX, lines, rows, y, width, height) ==
  IF remaining = 0 THEN Drawn(lines, rows)
  ELSE LET brk    == currentX + 1 > width
           lines2 == IF brk THEN lines + 1 ELSE lines
           cx     == IF brk THEN 0 ELSE currentX
       IN IF brk /\ lines2 > height THEN Drawn(lines2, rows)
          ELSE textWrapLoop(remaining - 1, cx + 1, lines2,
                            rows \cup {y + lines2 - 1}, y, width, height)

RECURSIVE renderNode(_, _, _, _)
RECURSIVE vstackLoop(_, _, _, _)
RECURSIVE hstackLoop(_, _, _, _)

\* The child loop of vstackNode.render; g is the padded area and the flex
\* unit, acc the running currentY, totalUsedHeight, rows, grants and the
\* offset each rendered child started at.
vstackLoop(v, i, acc, g) ==
  IF i > Len(v.children) \/ acc.currentY >= g.y + g.height THEN acc
  ELSE LET child == v.children[i]
           wanted == IF isFlexNode(child) /\ getFlex(child) > 0
                     THEN g.unit * getFlex(child)
                     ELSE measureNodeHeight(child, g.width)
           remainingH  == (g.y + g.height) - acc.currentY
           childHeight == IF wanted > remainingH THEN remainingH ELSE wanted
           r           == renderNode(child, acc.currentY, g.width, childHeight)
           usedHeight  == IF r.used = 0 /\ childHeight > 0 THEN childHeight ELSE r.used
           gapAdd      == IF i < Len(v.children) THEN v.gap ELSE 0
       IN vstackLoop(v, i + 1,
                     [currentY |-> acc.currentY + usedHeight + gapAdd,
                      total    |-> acc.total + usedHeight + gapAdd,
                      rows     |-> acc.rows \cup r.rows,
                      grants   |-> Append(acc.grants, childHeight),
                      starts   |-> Append(acc.starts, acc.currentY - g.y)], g)

\* The child loop of hstackNode.render; positions are relative to x.
hstackLoop(h, i, acc, g) ==
  IF i > Len(h.children) \/ acc.currentX >= g.width THEN acc
  ELSE LET child == h.children[i]
           wanted == IF getChildFlex(child) > 0 THEN g.unit * getChildFlex(child)
                     ELSE measureWidth(child)
           remainingW == g.width - acc.currentX
           childWidth == IF wanted > remainingW THEN remainingW ELSE wanted
           measured   == measureNodeHeight(child, childWidth)
           clamped    == IF measured > g.height THEN g.height ELSE measured
           childRenderHeight == IF clamped = 0 /\ g.height > 0 /\ isFlexNode(child)
                                THEN g.height ELSE clamped
           r          == renderNode(child, g.y, childWidth, childRenderHeight)
           gapAdd     == IF i < Len(h.children) THEN h.gap ELSE 0
       IN hstackLoop(h, i + 1,
                     [currentX  |-> acc.currentX + childWidth + gapAdd,
                      maxHeight |-> IF r.used > acc.maxHeight THEN r.used ELSE acc.maxHeight,
                      rows      |-> acc.rows \cup r.rows,
                      grants    |-> Append(acc.grants, childWidth),
                      starts    |-> Append(acc.starts, acc.currentX)], g)

renderVStack(v, y0, width0, height0) ==
  LET y      == y0 + v.paddingV
      width  == width0 - 2 * v.paddingH
      height == height0 - 2 * v.paddingV
  IN IF Len(v.children) = 0 \/ width <= 0 \/ height <= 0 THEN Drawn(0, {})
     ELSE LET totalFlex == sumFlex(v.children, 1)
              fixedHeight == fixedHeightOf(v, width)
              remainingHeight == remainingHeightOf(v, width, height)
              flexUnitHeight == IF totalFlex > 0 THEN goDiv(remainingHeight, totalFlex) ELSE 0
              totalContentHeight == fixedHeight + (IF totalFlex > 0 THEN remainingHeight ELSE 0)
              offset == justifyOffset(v.justify, totalContentHeight, height)
              out == vstackLoop(v, 1, [currentY |-> y + offset, total |-> 0,
                                       rows |-> {}, grants |-> <<>>, starts |-> <<>>],
                                [y |-> y, width |-> width, height |-> height,
                                 unit |-> flexUnitHeight])
          IN [used |-> out.total, rows |-> out.rows, grants |-> out.grants,
              first |-> IF out.starts = <<>> THEN NoOffset ELSE out.starts[1]]

renderHStack(h, y, width, height) ==
  IF Len(h.children) = 0 THEN Drawn(0, {})
  ELSE LET totalFlex == sumChildFlex(h.children, 1)
           fixedWidth == (Len(h.children) - 1) * h.gap + sumFixedWidth(h.children, 1)
           remainingWidth == IF width - fixedWidth < 0 THEN 0 ELSE width - fixedWidth
           flexUnitWidth == IF totalFlex > 0 THEN goDiv(remainingWidth, totalFlex) ELSE 0
           totalContentWidth == fixedWidth + (IF totalFlex > 0 THEN remainingWidth ELSE 0)
           offset == justifyOffset(h.justify, totalContentWidth, width)
           out == hstackLoop(h, 1, [currentX |-> offset, maxHeight |-> 0,
                                    rows |-> {}, grants |-> <<>>, starts |-> <<>>],
                             [y |-> y, width |-> width, height |-> height,
                              unit |-> flexUnitWidth])
       IN [used |-> IF out.maxHeight = 0 THEN 1 ELSE out.maxHeight,
           rows |-> out.rows, grants |-> out.grants,
           first |-> IF out.starts = <<>> THEN NoOffset ELSE out.starts[1]]

renderBox(b, y, width, height) ==
  IF height <= 0 \/ width <= 0 THEN Drawn(0, {})
  ELSE LET actualHeight == IF b.height > 0 /\ b.height < height THEN b.height ELSE height
           maxContentWidth  == width - 2 * borderSize(b) - 2 * b.paddingH
           maxContentHeight == actualHeight - 2 * borderSize(b) - 2 * b.paddingV
           borderRows == IF b.border THEN y .. (y + actualHeight - 1) ELSE {}
       IN IF maxContentWidth <= 0 \/ maxContentHeight <= 0
          THEN Drawn(actualHeight, borderRows)
          ELSE LET contentY == y + borderSize(b) + b.paddingV
                   r == IF Len(b.children) = 0 THEN Drawn(0, {})
                        ELSE renderNode(b.children[1], contentY,
                                        maxContentWidth, maxContentHeight)
               IN Drawn(IF b.height > 0 THEN b.height
                        ELSE r.used + 2 * borderSize(b) + 2 * b.paddingV,
                        borderRows \cup r.rows)

renderText(t, y, width, height) ==
  IF height <= 0 THEN Drawn(0, {})
  ELSE IF ~t.wrap
       THEN Drawn(1, IF t.len > 0 /\ width >= 1 THEN {y} ELSE {})
       ELSE textWrapLoop(t.len, 0, 1, {}, y, width, height)

renderNode(n, y, width, height) ==
  CASE n.type = "textNode"    -> renderText(n, y, width, height)
    [] n.type = "vstackNode"  -> renderVStack(n, y, width, height)
    [] n.type = "hstackNode"  -> renderHStack(n, y, width, height)
    [] n.type = "boxNode"     -> renderBox(n, y, width, height)
    [] n.type = "spacerNode"  -> Drawn(height, {})
    [] n.type = "dividerNode" ->
         IF height <= 0 \/ width <= 0 THEN Drawn(0, {}) ELSE Drawn(1, {y})
    [] OTHER -> Drawn(0, {})

\* The trees the layout is exercised on.
Widths   == 1..MaxWidth
Heights  == 0..MaxHeight
Gaps     == 0..MaxGap
Paddings == 0..MaxPadding

StackItems ==
  { Text(1), Wrap(Text(3), TRUE), Spacer, Flex(Box(Text(1)), 2), HStack(<<Empty>>) }

ChildLists == UNION { [1..k -> StackItems] : k \in 0..MaxChildren }

\* The longest child lists are laid out without padding only.
VStacks ==
  UNION { { Padding(Justify(Gap(VStack(cs), g), a), p, 0) :
              g \in Gaps, a \in Aligns,
              p \in { q \in Paddings : Len(cs) < MaxChildren \/ q = 0 } } :
          cs \in ChildLists }

HStacks ==
  { Justify(Gap(HStack(cs), g), a) :
      cs \in { <<Text(1)>>, <<Text(1), Text(1)>>, <<Wrap(Text(3), TRUE), Text(1)>>,
               <<Text(1), Spacer>>, <<Spacer>>, <<Empty>> },
      g \in Gaps, a \in Aligns }

Boxes ==
  { Padding(Height(IF b THEN Border(Box(c)) ELSE Box(c), h), p, 0) :
      c \in {Text(1), Wrap(Text(3), TRUE), Spacer}, b \in BOOLEAN,
      h \in {0, 2}, p \in Paddings }

LayoutNodes ==
  { Text(1), Text(3), Wrap(Text(3), TRUE), Empty, Spacer, Divider }
    \cup Boxes \cup HStacks \cup VStacks

NoLayout == [used |-> 0, rows |-> {}, grants |-> <<>>, first |-> NoOffset]

InitLayout ==
  /\ lnode = Empty
  /\ lwidth = 0
  /\ lheight = 0
  /\ lmeasure = 0
  /\ lused = NoLayout
  /\ lrendered = FALSE

\* One layout pass over a tree: measureNodeHeight(node, width) and
\* node.render(screen, x, 0, width, height).  Both are pure in the tree
\* and the grant, so one pass per behaviour covers every pass.
LayoutRender(n, width, height) ==
  /\ ~lrendered
  /\ lnode' = n
  /\ lwidth' = width
  /\ lheight' = height
  /\ lmeasure' = measureNodeHeight(n, width)
  /\ lused' = renderNode(n, 0, width, height)
  /\ lrendered' = TRUE
  /\ UNCHANGED notLayout

NextLayout ==
  /\ ~lrendered
  /\ \E n \in LayoutNodes, width \in Widths, height \in Heights :
       LayoutRender(n, width, height)

---------------------------------------------------------------------------
\* Scroll: one TailBox component (src/unnamed/part_000:56-178).  Its child
\* is a column of one-row lines, content lines long, as a log view builds
\* it (a VStack of Text nodes): measureNodeHeight of the child is the number
\* of lines, and its render, granted RenderHeight rows, writes line i to
\* row y+i for i < RenderHeight (vstackNode.render stops at the grant).
\* The box is at least 2 columns wide, so the viewport has a column.

RenderHeight == 1000
MaxView      == 5
MaxWheel     == 4
Views        == 0..MaxView
Contents     == {3, 7, 8, 20, RenderHeight + 3, RenderHeight + 4}
NoRow        == -1

NoScroll ==
  [rendered |-> FALSE, content |-> 0, view |-> 0, auto |-> FALSE, pinned |-> FALSE,
   before |-> 0, offY |-> 0, stored |-> 0, shown |-> <<>>, thumbDrawn |-> FALSE,
   thumbPos |-> 0, thumbHeight |-> 0]

InitScroll ==
  /\ sstates = <<>>
  /\ hTop = 0
  /\ hAuto = FALSE
  /\ hChild = 0
  /\ srect = 0
  /\ scontent = 3
  /\ swheel = 0
  /\ spinned = TRUE
  /\ sout = NoScroll

\* Use(c, key, initial): the stored value, or initial when the key is new.
useCell(st, key, initial) == IF key \in DOMAIN st THEN st[key] ELSE initial

\* setState(key, value) on the states map.
setCell(st, key, value) ==
  [k \in DOMAIN st \cup {key} |-> IF k = key THEN value ELSE st[k]]

\* The rows of the child that its render writes through the clipScreen.
childRows(content) == 0..((IF content < RenderHeight THEN content ELSE RenderHeight) - 1)

\* clipScreen.SetContent with offY = -off: the content row that lands on
\* viewport row j, if the child wrote one there.
shownAt(j, off, content) == IF (j + off) \in childRows(content) THEN j + off ELSE NoRow

\* The thumb arithmetic of scrollNode.render.
thumbHeightOf(view, content) ==
  IF goDiv(view * view, content) < 1 THEN 1 ELSE goDiv(view * view, content)
thumbPosOf(off, view, content) ==
  IF goDiv(off * view, content) + thumbHeightOf(view, content) > view
  THEN view - thumbHeightOf(view, content)
  ELSE goDiv(off * view, content)

\* A render pass: TailBox and ScrollBox read their two cells, then
\* scrollNode.render runs with the granted height view, and
\* componentNode.render records the rectangle.
ScrollRender(view) ==
  LET auto0 == useCell(sstates, "autoScroll", TRUE)
      top0  == useCell(sstates, "scrollTop", 0)
      tail  == auto0 /\ scontent > view
      offY  == IF tail THEN scontent - view ELSE top0
      cells == setCell(setCell(sstates, "autoScroll", auto0), "scrollTop", offY)
  IN /\ sstates' = cells
     /\ hTop' = offY
     /\ hAuto' = auto0
     /\ hChild' = scontent
     /\ srect' = view
     /\ sout' = [rendered |-> TRUE, content |-> scontent, view |-> view,
                 auto |-> auto0, pinned |-> spinned, before |-> top0, offY |-> offY,
                 stored |-> cells["scrollTop"],
                 shown |-> [j \in 0..(view - 1) |-> shownAt(j, offY, scontent)],
                 thumbDrawn  |-> scontent > view,
                 thumbPos    |-> IF scontent > view
                                 THEN thumbPosOf(offY, view, scontent) ELSE 0,
                 thumbHeight |-> IF scontent > view
                                 THEN thumbHeightOf(view, scontent) ELSE 0]
     /\ UNCHANGED <<scontent, swheel, spinned>>
     /\ UNCHANGED notScroll

\* A wheel-up event: the handler of the last pass, holding that pass's
\* handles; inside tells whether the position is in the box's rectangle.
ScrollUp(inside) ==
  /\ sout.rendered
  /\ swheel < MaxWheel
  /\ inside => srect > 0
  /\ swheel' = swheel + 1
  /\ IF inside
     THEN LET nv == IF hTop > 0 THEN hTop - 1 ELSE 0
          IN /\ hAuto' = FALSE
             /\ hTop' = nv
             /\ sstates' = LET st == IF hAuto # FALSE
                                      THEN setCell(sstates, "autoScroll", FALSE)
                                      ELSE sstates
                            IN IF hTop # nv THEN setCell(st, "scrollTop", nv) ELSE st
             /\ spinned' = FALSE
     ELSE UNCHANGED <<hAuto, hTop, sstates, spinned>>
  /\ UNCHANGED <<hChild, srect, scontent, sout>>
  /\ UNCHANGED notScroll

\* A wheel-down event.
ScrollDown(inside) ==
  /\ sout.rendered
  /\ swheel < MaxWheel
  /\ inside => srect > 0
  /\ swheel' = swheel + 1
  /\ IF inside
     THEN LET maxScroll == IF hChild - srect < 0 THEN 0 ELSE hChild - srect
          IN IF hTop < maxScroll
             THEN /\ hTop' = hTop + 1
                  /\ sstates' = setCell(sstates, "scrollTop", hTop + 1)
                  /\ spinned' = (spinned \/ hTop + 1 >= maxScroll)
                  /\ UNCHANGED hAuto
             ELSE /\ hAuto' = TRUE
                  /\ sstates' = IF hAuto # TRUE
                                THEN setCell(sstates, "autoScroll", TRUE) ELSE sstates
                  /\ spinned' = TRUE
                  /\ UNCHANGED hTop
     ELSE UNCHANGED <<hAuto, hTop, sstates, spinned>>
  /\ UNCHANGED <<hChild, srect, scontent, sout>>
  /\ UNCHANGED notScroll

\* The application appends lines to the content.
ContentGrow(content) ==
  /\ content > scontent
  /\ scontent' = content
  /\ UNCHANGED <<sstates, hTop, hAuto, hChild, srect, swheel, spinned, sout>>
  /\ UNCHANGED notScroll

NextScroll ==
  \/ \E view \in Views : ScrollRender(view)
  \/ \E inside \in BOOLEAN : ScrollUp(inside)
  \/ \E inside \in BOOLEAN : ScrollDown(inside)
  \/ \E content \in Contents : ContentGrow(content)

---------------------------------------------------------------------------
\* Caret: Runtime.render's cursor bookkeeping (src/runtime.go:125-169,
\* 254-259), the cursor marker node and the scroll viewport's clipScreen
\* (src/unnamed/part_000:47-54, 1105-1114).  A pass is given by what asks
\* for the caret while it runs: a c.SetCursor call of a component body, then
\* the cursor markers the layout renders, in order, each directly on the
\* render proxy or inside a scroll viewport.

NoPos == <<-1, -1>>
CaretPositions == {<<0, 0>>, <<2, 1>>, <<1, 3>>}
MaxOffset == 2
MaxMarkers == 2

\* A scroll viewport at (0, 1), 3 columns by 2 rows, scrolled by off rows.
NoClip == [on |-> FALSE, viewX |-> 0, viewY |-> 0, viewW |-> 0, viewH |-> 0, offY |-> 0]
Clips  == {NoClip} \cup
          { [on |-> TRUE, viewX |-> 0, viewY |-> 1, viewW |-> 3, viewH |-> 2, offY |-> -off] :
              off \in 0..MaxOffset }

Markers     == [pos : CaretPositions, clip : Clips]
MarkerLists == UNION { [1..k -> Markers] : k \in 0..MaxMarkers }

\* clipScreen.ShowCursor: the position handed on to the wrapped screen, or
\* NoPos when the translated position is outside the viewport.
clipShowCursor(clip, pos) ==
  LET realX == pos[1]
      realY == pos[2] + clip.offY
  IN IF realX >= clip.viewX /\ realX < clip.viewX + clip.viewW /\
        realY >= clip.viewY /\ realY < clip.viewY + clip.viewH
     THEN <<realX, realY>> ELSE NoPos

\* cursorNode.render on its screen: what reaches renderScreenProxy.ShowCursor.
markerRequest(mk) == IF mk.clip.on THEN clipShowCursor(mk.clip, mk.pos) ELSE mk.pos

\* Runtime.setCursor.
setCursor(cur, pos) == [show |-> TRUE, pos |-> pos]

\* A pass that does not reset the flag.
keepCursor(cur) == cur

\* The start of a pass: r.showCursor = false.
resetCursor(cur) == [cur EXCEPT !.show = FALSE]

\* The markers of a pass, rendered in order.
RECURSIVE renderMarkers(_, _, _)
renderMarkers(cur, mks, i) ==
  IF i > Len(mks) THEN cur
  ELSE renderMarkers(IF markerRequest(mks[i]) = NoPos THEN cur
                     ELSE setCursor(cur, markerRequest(mks[i])), mks, i + 1)

\* The last marker of the list whose request got through, or NoPos.
RECURSIVE lastRendered(_, _)
lastRendered(mks, i) ==
  IF i = 0 THEN NoPos
  ELSE IF markerRequest(mks[i]) # NoPos THEN markerRequest(mks[i])
       ELSE lastRendered(mks, i - 1)

Hidden == [shown |-> FALSE, pos |-> NoPos]
NoPass == [kind |-> "none", marker |-> NoPos, body |-> NoPos, before |-> FALSE]

InitCaret ==
  /\ gcursor = [show |-> FALSE, pos |-> <<0, 0>>]
  /\ gcaret = Hidden
  /\ gpanic = FALSE
  /\ glast = NoPass

\* Runtime.render without a stored panic: reset, the root body, the layout,
\* then the caret is shown or hidden; a panic on the way is recovered and
\* leaves the surface's caret alone.
CaretRender(body, mks, fault) ==
  /\ ~gpanic
  /\ LET cur0 == resetCursor(gcursor)
         cur1 == IF body = NoPos THEN cur0 ELSE setCursor(cur0, body)
         cur2 == renderMarkers(cur1, mks, 1)
     IN /\ gcursor' = cur2
        /\ gpanic' = fault
        /\ gcaret' = IF fault THEN gcaret
                     ELSE IF cur2.show THEN [shown |-> TRUE, pos |-> cur2.pos]
                     ELSE Hidden
        /\ glast' = [kind |-> IF fault THEN "fault" ELSE "normal",
                     marker |-> lastRendered(mks, Len(mks)), body |-> body,
                     before |-> gcaret.shown]
  /\ UNCHANGED notCaret

\* Runtime.render with a stored panic: the diagnostic screen only.
CaretDiagnostic ==
  /\ gpanic
  /\ glast' = [kind |-> "diagnostic", marker |-> NoPos, body |-> NoPos,
               before |-> gcaret.shown]
  /\ UNCHANGED <<gcursor, gcaret, gpanic>>
  /\ UNCHANGED notCaret

\* c.SetCursor called by an event handler, between passes.
CaretSetCursor(pos) ==
  /\ glast.kind # "none"
  /\ gcursor' = setCursor(gcursor, pos)
  /\ UNCHANGED <<gcaret, gpanic, glast>>
  /\ UNCHANGED notCaret

NextCaret ==
  \/ \E body \in CaretPositions \cup {NoPos}, mks \in MarkerLists, fault \in BOOLEAN :
        CaretRender(body, mks, fault)
  \/ CaretDiagnostic
  \/ \E pos \in CaretPositions : CaretSetCursor(pos)

---------------------------------------------------------------------------
\* Context: Context.Provide and UseContext (src/unnamed/part_016) on a
\* chain of three components, root > mid > leaf.  root and mid may return
\* ctx.Provide(c, value, children...) with their child component built in
\* the argument list, as the examples do; leaf calls UseContext.  Go
\* evaluates the arguments of a call before the call, so the child bodies
\* run before the Provide that wraps them stores its value.

ContextVals  == {1, 2}
DefaultValue == 0
Provided     == ContextVals \cup {Absent}
Providers    == {"root", "mid"}

NoContextPass == [passes |-> 0, root |-> Absent, mid |-> Absent]
MaxContextPasses == 4

InitContext ==
  /\ contextValues = [p \in Providers |-> Absent]
  /\ xread = DefaultValue
  /\ xlast = NoContextPass

\* UseContext called by leaf: from the component upwards, the first stored
\* value, else the default.
UseContext(values) ==
  IF values["mid"] # Absent THEN values["mid"]
  ELSE IF values["root"] # Absent THEN values["root"]
  ELSE DefaultValue

\* Provide: setContextValue on the provider's context, if it provides.
setContextValue(values, p, value) ==
  IF value = Absent THEN values ELSE [values EXCEPT ![p] = value]

\* A render pass.  The bodies run innermost argument first: leaf reads,
\* then mid's Provide stores, then root's.
ContextRender(rootValue, midValue) ==
  /\ xlast.passes < MaxContextPasses
  /\ xread' = UseContext(contextValues)
  /\ contextValues' = setContextValue(setContextValue(contextValues, "mid", midValue),
                                      "root", rootValue)
  /\ xlast' = [passes |-> xlast.passes + 1, root |-> rootValue, mid |-> midValue]
  /\ UNCHANGED notContext

NextContext ==
  \E rootValue \in Provided, midValue \in Provided : ContextRender(rootValue, midValue)

---------------------------------------------------------------------------
\* The steps of one render pass.  The application is a stopwatch with a
\* log view, after examples/timer/main.go: the root body reads the cell
\* "seconds" and, in an effect of its first render, starts a ticker
\* goroutine that keeps the State object of that render and calls
\* seconds.Update(s + 1); a nested component given the root's context reads
\* "seconds" again and shows one line per second above BaseLines lines in
\* a TailBox (src/unnamed/part_000:126-178), whose node writes the tail
\* offset back while it renders (src/unnamed/part_000:78-85).

MaxTicks  == 2
MaxQuiet  == 3
BaseLines == 2
PassViews == {1, 2}
PassKeys  == {"seconds", "scrollTop", "autoScroll"}
NoHandles == [seconds |-> Absent, scrollTop |-> Absent, autoScroll |-> FALSE]
NoStep    == [op |-> "none", wrote |-> FALSE, ended |-> <<>>]

InitPass ==
  /\ qcells = <<>>
  /\ qpc = "start"
  /\ qview = 1
  /\ qh = NoHandles
  /\ qtick = Absent
  /\ qreads = <<>>
  /\ qstart = <<>>
  /\ qquiet = 0
  /\ qlast = NoStep

\* Use(c, key, initial): the cells after the call (src/unnamed/part_015:39-58).
useStore(st, key, initial) == IF key \in DOMAIN st THEN st ELSE setCell(st, key, initial)

\* Runtime.render up to the call of the root: the initial render of Run, or
\* the render after a receive from refreshChan.
PassBegin ==
  /\ qpc \in {"start", "select"}
  /\ qquiet < MaxQuiet
  /\ IF qpc = "start" THEN UNCHANGED refreshChan
     ELSE /\ refreshChan > 0
          /\ refreshChan' = refreshChan - 1
  /\ qpc' = "body"
  /\ qstart' = qcells
  /\ qreads' = <<>>
  /\ qquiet' = qquiet + 1
  /\ qlast' = [NoStep EXCEPT !.op = "begin"]
  /\ UNCHANGED <<qcells, qview, qh, qtick>>

\* The root body: Use(c, "seconds", 0), and the effect that starts the
\* ticker with this render's State object when it runs (first render).
PassBody ==
  /\ qpc = "body"
  /\ qpc' = "nested"
  /\ qcells' = useStore(qcells, "seconds", 0)
  /\ qh' = [qh EXCEPT !.seconds = useCell(qcells, "seconds", 0)]
  /\ qreads' = Append(qreads, useCell(qcells, "seconds", 0))
  /\ qtick' = IF "seconds" \in DOMAIN qcells THEN qtick ELSE 0
  /\ qlast' = [NoStep EXCEPT !.op = "body"]
  /\ UNCHANGED <<refreshChan, qview, qstart, qquiet>>

\* The nested component: Use(c, "seconds", 0) on the same record, then
\* TailBox: Use(c, "autoScroll", true), and ScrollBox: Use(c, "scrollTop", 0),
\* Use(c, "autoScroll", false).
PassNested ==
  LET st1 == useStore(qcells, "seconds", 0)
      st2 == useStore(st1, "autoScroll", TRUE)
      st3 == useStore(st2, "scrollTop", 0)
  IN /\ qpc = "nested"
     /\ qpc' = "nodes"
     /\ qcells' = st3
     /\ qh' = [seconds |-> st3["seconds"], scrollTop |-> st3["scrollTop"],
               autoScroll |-> st3["autoScroll"]]
     /\ qreads' = Append(qreads, st3["seconds"])
     /\ qlast' = [NoStep EXCEPT !.op = "nested"]
     /\ UNCHANGED <<refreshChan, qview, qtick, qstart, qquiet>>

\* node.render: scrollNode.render over the lines the nested component
\* built, then the end of Runtime.render.
PassNodes ==
  LET content == BaseLines + qreads[2]
      tail    == qh.autoScroll /\ content > qview
      r       == stateSet(qh.scrollTop, qcells["scrollTop"], content - qview)
      wrote   == tail /\ r.refreshed
      after   == IF wrote THEN setCell(qcells, "scrollTop", r.cell) ELSE qcells
  IN /\ qpc = "nodes"
     /\ qpc' = "select"
     /\ qcells' = after
     /\ qh' = IF tail THEN [qh EXCEPT !.scrollTop = r.Val] ELSE qh
     /\ refreshChan' \in (IF wrote THEN scheduleRefresh(refreshChan)
                                   ELSE {refreshChan})
     /\ qlast' = [op |-> "end", wrote |-> wrote, ended |-> after]
     /\ UNCHANGED <<qview, qtick, qreads, qstart, qquiet>>

\* The ticker goroutine: seconds.Update(func(s) { return s + 1 }) through
\* the State object it holds; it runs whatever the main loop is doing.
Tick ==
  LET r == stateSet(qtick, qcells["seconds"], qtick + 1)
  IN /\ qtick # Absent
     /\ qtick < MaxTicks
     /\ qtick' = r.Val
     /\ qcells' = setCell(qcells, "seconds", r.cell)
     /\ refreshChan' \in scheduleRefresh(refreshChan)
     /\ qquiet' = 0
     /\ qlast' = [NoStep EXCEPT !.op = "tick"]
     /\ UNCHANGED <<qpc, qview, qh, qreads, qstart>>

\* tcell.EventResize handled by the main loop.
PassResize(view) ==
  /\ qpc = "select"
  /\ view # qview
  /\ qview' = view
  /\ refreshChan' \in scheduleRefresh(refreshChan)
  /\ qquiet' = 0
  /\ qlast' = [NoStep EXCEPT !.op = "resize"]
  /\ UNCHANGED <<qcells, qpc, qh, qtick, qreads, qstart>>

\* A wheel-up event inside the box, handled by the main loop with the
\* handler and the State objects of the latest pass.
PassWheelUp ==
  LET a  == stateSet(qh.autoScroll, qcells["autoScroll"], FALSE)
      nv == IF qh.scrollTop > 0 THEN qh.scrollTop - 1 ELSE 0
      t  == stateSet(qh.scrollTop, qcells["scrollTop"], nv)
  IN /\ qpc = "select"
     /\ qcells' = setCell(setCell(qcells, "autoScroll", a.cell), "scrollTop", t.cell)
     /\ qh' = [qh EXCEPT !.autoScroll = a.Val, !.scrollTop = t.Val]
     /\ refreshChan' \in (IF a.refreshed \/ t.refreshed
                          THEN scheduleRefresh(refreshChan) ELSE {refreshChan})
     /\ qquiet' = 0
     /\ qlast' = [NoStep EXCEPT !.op = "wheel"]
     /\ UNCHANGED <<qpc, qview, qtick, qreads, qstart>>

NextPass ==
  \/ PassBegin /\ UNCHANGED notPass
  \/ PassBody /\ UNCHANGED notPass
  \/ PassNested /\ UNCHANGED notPass
  \/ PassNodes /\ UNCHANGED notPass
  \/ Tick /\ UNCHANGED notPass
  \/ \E view \in PassViews : PassResize(view) /\ UNCHANGED notPass
  \/ PassWheelUp /\ UNCHANGED notPass

---------------------------------------------------------------------------
\* Buttons (src/button.go:13-48): three Button components below the root,
\* rendered in the order a, b, c when the root's body requests them.  The
\* key handler of a Button is a closure over the FocusState that UseFocus
\* returned in the pass that registered the handler.

ButtonOrder == <<"root/a", "root/b", "root/c">>
Buttons3    == {ButtonOrder[i] : i \in 1..Len(ButtonOrder)}
NoKeyStep   == [op |-> "none", key |-> NoKey, current |-> NoKey, acted |-> {}]

InitKeys ==
  /\ yfm = newFocusManager
  /\ yhandler = [b \in Buttons3 |-> "nil"]
  /\ ypc = "start"
  /\ ylast = NoKeyStep

\* The keys of the Buttons of R, in render order, from position i on.
RECURSIVE buttonRegs(_, _)
buttonRegs(R, i) ==
  IF i > Len(ButtonOrder) THEN <<>>
  ELSE (IF ButtonOrder[i] \in R THEN <<ButtonOrder[i]>> ELSE <<>>) \o buttonRegs(R, i + 1)

\* UseFocus of Button b in a pass that renders R: the IsFocused field of
\* the FocusState, read right after b's own Register.
RECURSIVE useFocusAt(_, _, _)
useFocusAt(m, regs, b) ==
  IF Head(regs) = b THEN IsFocused(Register(m, b), b)
  ELSE useFocusAt(Register(m, Head(regs)), Tail(regs), b)

\* A render pass whose root requests the Buttons of R: Reset, then each
\* Button's UseFocus and UseKey.  Child resets the handler of a requested
\* record; a record that is not requested keeps its handler.
KeysRender(R) ==
  /\ \/ ypc = "start" /\ UNCHANGED refreshChan
     \/ ypc = "select" /\ refreshChan > 0 /\ refreshChan' = refreshChan - 1
  /\ ypc' = "select"
  /\ yfm' = RegisterAll(Reset(yfm), buttonRegs(R, 1))
  /\ yhandler' = [b \in Buttons3 |->
                    IF b \notin R THEN yhandler[b]
                    ELSE IF useFocusAt(Reset(yfm), buttonRegs(R, 1), b)
                         THEN "focused" ELSE "unfocused"]
  /\ ylast' = [NoKeyStep EXCEPT !.op = "render"]

\* Runtime.handleEvent on Tab and Shift+Tab.
KeysTab(shift) ==
  /\ ypc = "select"
  /\ yfm' = IF shift THEN Prev(yfm) ELSE Next(yfm)
  /\ refreshChan' \in scheduleRefresh(refreshChan)
  /\ ylast' = [NoKeyStep EXCEPT !.op = "tab", !.current = yfm.currentKey]
  /\ UNCHANGED <<yhandler, ypc>>

\* Runtime.handleEvent on Enter: dispatchKeyEvent calls every key handler;
\* a Button's handler acts (calls OnClick) if its focus.IsFocused is true.
KeysEnter ==
  /\ ypc = "select"
  /\ ylast' = [op |-> "key", key |-> NoKey, current |-> yfm.currentKey,
               acted |-> {b \in Buttons3 : yhandler[b] = "focused"}]
  /\ UNCHANGED <<refreshChan, yfm, yhandler, ypc>>

\* A primary-button click inside Button b: its mouse handler calls
\* focus.Focus(), that is fm.Focus(focusKey) and Refresh.
KeysClick(b) ==
  /\ ypc = "select"
  /\ yhandler[b] # "nil"
  /\ yfm' = Focus(yfm, b)
  /\ refreshChan' \in scheduleRefresh(refreshChan)
  /\ ylast' = [NoKeyStep EXCEPT !.op = "click", !.key = b, !.current = yfm.currentKey]
  /\ UNCHANGED <<yhandler, ypc>>

\* FocusState.Blur of Button b, called by application code.
KeysBlur(b) ==
  /\ ypc = "select"
  /\ yhandler[b] # "nil"
  /\ yfm' = IF IsFocused(yfm, b) THEN Next(yfm) ELSE yfm
  /\ refreshChan' \in (IF IsFocused(yfm, b) THEN scheduleRefresh(refreshChan)
                                            ELSE {refreshChan})
  /\ ylast' = [NoKeyStep EXCEPT !.op = "blur", !.key = b, !.current = yfm.currentKey]
  /\ UNCHANGED <<yhandler, ypc>>

NextKeys ==
  \/ \E R \in SUBSET Buttons3 : KeysRender(R) /\ UNCHANGED notKeys
  \/ \E shift \in BOOLEAN : KeysTab(shift) /\ UNCHANGED notKeys
  \/ KeysEnter /\ UNCHANGED notKeys
  \/ \E b \in Buttons3 : KeysClick(b) /\ UNCHANGED notKeys
  \/ \E b \in Buttons3 : KeysBlur(b) /\ UNCHANGED notKeys

---------------------------------------------------------------------------
\* TextInput (src/text_input.go), multiline, holding the focus.  A text is
\* a sequence of runes, "nl" being the line feed; every other rune of the
\* model is one column wide.  The State objects of the cells "text" and
\* "cursorPos" are those of the latest pass, and every write goes through
\* them, so their Val is the value of the cell.

MaxRunes  == 3
MaxLen    == 5
MaxClick  == 3
Runes     == {"a", "nl"}
RECURSIVE RuneSeqs(_)
RuneSeqs(n) == IF n = 0 THEN {<<>>}
               ELSE RuneSeqs(n - 1) \cup {Append(s, r) : s \in RuneSeqs(n - 1), r \in Runes}
InputValues == {<<>>, <<"a">>, <<"a", "a">>, <<"a", "nl", "a">>}
InputKeys == {"Backspace", "Delete", "Left", "Right", "Up", "Down", "Enter",
              "Home", "End", "Rune"}
NoInputStep == [op |-> "none", cursor |-> 0, len |-> 0]
NoFind      == [op |-> "none", runes |-> <<>>, current |-> 0, result |-> 0]

\* "for lineStart > 0 && runes[lineStart-1] != '\n' { lineStart-- }"
RECURSIVE scanBack(_, _)
scanBack(runes, i) ==
  IF i > 0 /\ runes[i] # "nl" THEN scanBack(runes, i - 1) ELSE i

\* "for lineEnd < len(runes) && runes[lineEnd] != '\n' { lineEnd++ }"
RECURSIVE scanFwd(_, _)
scanFwd(runes, i) ==
  IF i < Len(runes) /\ runes[i + 1] # "nl" THEN scanFwd(runes, i + 1) ELSE i

\* findPosAbove(runes, current)
findPosAboveNoClamp(runes, current) ==
  IF current = 0 THEN 0
  ELSE LET lineStart == scanBack(runes, current) IN
       IF lineStart = 0 THEN 0
       ELSE scanBack(runes, lineStart - 1) + (current - lineStart)
findPosAbove(runes, current) ==
  IF current = 0 THEN 0
  ELSE LET lineStart == scanBack(runes, current) IN
       IF lineStart = 0 THEN 0
       ELSE LET prevLineEnd   == lineStart - 1
                prevLineStart == scanBack(runes, prevLineEnd)
                col           == current - lineStart
                prevLineLen   == prevLineEnd - prevLineStart
            IN IF col > prevLineLen THEN prevLineEnd ELSE prevLineStart + col

\* findPosBelow(runes, current)
findPosBelow(runes, current) ==
  LET lineStart == scanBack(runes, current)
      lineEnd   == scanFwd(runes, current)
  IN IF lineEnd = Len(runes) THEN Len(runes)
     ELSE LET nextLineStart == lineEnd + 1
              nextLineEnd   == scanFwd(runes, nextLineStart)
              col           == current - lineStart
              nextLineLen   == nextLineEnd - nextLineStart
          IN IF col > nextLineLen THEN nextLineEnd ELSE nextLineStart + col

\* strings.Split(text, "\n")
RECURSIVE splitLines(_)
splitLines(runes) ==
  IF scanFwd(runes, 0) = Len(runes) THEN <<runes>>
  ELSE <<SubSeq(runes, 1, scanFwd(runes, 0))>>
         \o splitLines(SubSeq(runes, scanFwd(runes, 0) + 2, Len(runes)))

\* calculateCursorPosFromClick(text, clickRow, clickCol)
RECURSIVE runesBefore(_, _)
runesBefore(lines, row) ==
  IF row = 0 THEN 0 ELSE runesBefore(lines, row - 1) + Len(lines[row]) + 1
calculateCursorPosFromClick(runes, clickRow, clickCol) ==
  LET lines == splitLines(runes)
      row   == IF clickRow >= Len(lines) THEN Len(lines) - 1 ELSE clickRow
      line  == lines[row + 1]
  IN runesBefore(lines, row) + (IF clickCol < Len(line) THEN clickCol ELSE Len(line))

InitInput ==
  /\ icells = <<>>
  /\ islot = [ran |-> FALSE, deps |-> <<>>]
  /\ ifault = FALSE
  /\ ilast = NoInputStep
  /\ vfind = NoFind

\* A render pass in which the parent passes props.Value = value: the two
\* Use calls, the effect that copies a changed Value into the cell "text",
\* and the render logic, whose "runes[:cursorPos.Val]" panics when the
\* cursor is beyond the runes.
InputRender(value) ==
  LET text0   == useCell(icells, "text", value)
      cursor0 == useCell(icells, "cursorPos", Len(text0))
      runs    == (~islot.ran) \/ ~depsEqual(islot.deps, <<value>>)
      text1   == IF runs /\ value # text0 THEN value ELSE text0
  IN /\ ~ifault
     /\ icells' = setCell(setCell(icells, "text", text1), "cursorPos", cursor0)
     /\ islot' = IF runs THEN [ran |-> TRUE, deps |-> <<value>>] ELSE islot
     /\ ifault' = (cursor0 > Len(text1))
     /\ ilast' = [op |-> "render", cursor |-> cursor0, len |-> Len(text1)]
     /\ UNCHANGED vfind

\* The text with the rune at 0-based index i removed, and with r inserted
\* before 0-based index i.
removeAt(runes, i) == SubSeq(runes, 1, i) \o SubSeq(runes, i + 2, Len(runes))
insertAt(runes, i, r) == SubSeq(runes, 1, i) \o <<r>> \o SubSeq(runes, i + 1, Len(runes))

\* The key handler of the latest pass on key.
InputKey(key) ==
  LET itext   == icells["text"]
      icursor == icells["cursorPos"]
      n       == Len(itext)
      text1 == CASE key = "Backspace" /\ icursor > 0 -> removeAt(itext, icursor - 1)
                [] key = "Delete" /\ icursor < n -> removeAt(itext, icursor)
                [] key = "Enter" -> insertAt(itext, icursor, "nl")
                [] key = "Rune" -> insertAt(itext, icursor, "a")
                [] OTHER -> itext
      cursor1 == CASE key = "Backspace" /\ icursor > 0 -> icursor - 1
                  [] key = "Left" /\ icursor > 0 -> icursor - 1
                  [] key = "Right" /\ icursor < n -> icursor + 1
                  [] key = "Up" -> findPosAbove(itext, icursor)
                  [] key = "Down" -> findPosBelow(itext, icursor)
                  [] key \in {"Enter", "Rune"} -> icursor + 1
                  [] key = "Home" -> scanBack(itext, icursor)
                  [] key = "End" -> scanFwd(itext, icursor)
                  [] OTHER -> icursor
  IN /\ icells # <<>>
     /\ ~ifault
     /\ key \in {"Enter", "Rune"} => n < MaxRunes
     /\ icells' = setCell(setCell(icells, "text", text1), "cursorPos", cursor1)
     /\ ilast' = [op |-> "key", cursor |-> cursor1, len |-> Len(text1)]
     /\ UNCHANGED <<islot, ifault, vfind>>

\* The mouse handler of the latest pass on a primary-button click inside
\* the input, clickRow and clickCol being relative to the text area.
InputClick(clickRow, clickCol) ==
  /\ icells # <<>>
  /\ ~ifault
  /\ icells' = setCell(icells, "cursorPos",
                       calculateCursorPosFromClick(icells["text"], clickRow, clickCol))
  /\ ilast' = [op |-> "click", cursor |-> icells'["cursorPos"],
               len |-> Len(icells["text"])]
  /\ UNCHANGED <<islot, ifault, vfind>>

NextInput ==
  \/ \E value \in InputValues : InputRender(value) /\ UNCHANGED notInput
  \/ \E key \in InputKeys : InputKey(key) /\ UNCHANGED notInput
  \/ \E row \in 0..MaxClick, col \in 0..MaxClick : InputClick(row, col) /\ UNCHANGED notInput

\* The cursor helpers on every rune sequence of up to MaxLen runes and
\* every position in it.
FindAbove(runes, current) ==
  /\ vfind' = [op |-> "above", runes |-> runes, current |-> current,
               result |-> findPosAbove(runes, current)]
  /\ UNCHANGED <<icells, islot, ifault, ilast>>
FindBelow(runes, current) ==
  /\ vfind' = [op |-> "below", runes |-> runes, current |-> current,
               result |-> findPosBelow(runes, current)]
  /\ UNCHANGED <<icells, islot, ifault, ilast>>

NextCursor ==
  \/ \E runes \in RuneSeqs(MaxLen) : \E current \in 0..Len(runes) :
        vfind.op = "none" /\ FindAbove(runes, current) /\ UNCHANGED notInput
  \/ \E runes \in RuneSeqs(MaxLen) : \E current \in 0..Len(runes) :
        vfind.op = "none" /\ FindBelow(runes, current) /\ UNCHANGED notInput

---------------------------------------------------------------------------
Init ==
  /\ InitState /\ InitEffects /\ InitFocus /\ InitTree /\ InitLoop /\ InitBridge
  /\ InitPush /\ InitMemo /\ InitRef /\ InitChild /\ InitCleanup /\ InitDiag /\ InitClick /\ InitLayout /\ InitScroll /\ InitCaret /\ InitContext /\ InitPass /\ InitKeys /\ InitInput
  /\ refreshChan = 0

SpecState   == Init /\ [][NextState]_vars
SpecEffects == Init /\ [][NextEffects]_vars
SpecFocus   == Init /\ [][NextFocus]_vars
SpecTree    == Init /\ [][NextTree]_vars
SpecLoop    == Init /\ [][NextLoop]_vars
SpecBridge  == Init /\ [][NextBridge]_vars
SpecPush    == Init /\ [][NextPush]_vars
SpecMemo    == Init /\ [][NextMemo]_vars
SpecRef     == Init /\ [][NextRef]_vars
SpecChild   == Init /\ [][NextChild]_vars
SpecCleanup == Init /\ [][NextCleanup]_vars
SpecDiag    == Init /\ [][NextDiag]_vars
SpecClick   == Init /\ [][NextClick]_vars
SpecLayout  == Init /\ [][NextLayout]_vars
SpecScroll  == Init /\ [][NextScroll]_vars
SpecCaret   == Init /\ [][NextCaret]_vars
SpecContext == Init /\ [][NextContext]_vars
SpecPass    == Init /\ [][NextPass]_vars
SpecKeys    == Init /\ [][NextKeys]_vars
SpecInput   == Init /\ [][NextInput]_vars
SpecCursor  == Init /\ [][NextCursor]_vars
SpecLoopFair == Init /\ [][NextLoop]_vars /\ LoopFairness

\* The scheduling around the Bridge: the main loop eventually receives a
\* pending refresh request and renders; the UI side answers an interaction
\* the Bridge of the latest render shows; a started Submit and a started
\* Set go on whenever they can.  Nothing obliges a task to call Ask.
BridgeFairness ==
  /\ WF_vars(BridgeFirstRender /\ UNCHANGED notBridge)
  /\ WF_vars(BridgeRender /\ UNCHANGED notBridge)
  /\ WF_vars(\E a \in Answers :
               bobjs[uiRef] /= NoInteraction /\ SubmitCall(a) /\ UNCHANGED notBridge)
  /\ WF_vars(SubmitEval /\ UNCHANGED notBridge)
  /\ WF_vars(\E t \in BridgeTasks : SubmitSend(t) /\ UNCHANGED notBridge)
  /\ WF_vars(SubmitClear /\ UNCHANGED notBridge)
  /\ WF_vars(SubmitClearCell /\ UNCHANGED notBridge)
  /\ \A t \in BridgeTasks : WF_vars(AskPublish(t) /\ UNCHANGED notBridge)
SpecBridgeFair == Init /\ [][NextBridge]_vars /\ BridgeFairness

---------------------------------------------------------------------------
\* Properties.

\* C2 (as stated): State persistence.  After Set(v) on a cell, a later Use
\* of that cell returns a handle whose Val is v, whatever initial is passed.
\* lastSet holds the value of the latest Set call on the cell.
C2_StatePersistence ==
  (hlast.op = "Use" /\ lastSet[hlast.ctx][hlast.key] /= Absent)
    => hlast.val = lastSet[hlast.ctx][hlast.key]

\* C3 (as stated): No-op write suppression.  A Set (directly or through
\* Update) whose value equals the value the cell currently holds leaves the
\* cell unchanged and does not call scheduleRefresh.
C3_NoOpWriteSuppressed ==
  (hlast.op \in {"Set", "Update"} /\ hlast.cellBefore = hlast.arg)
    => /\ ~hlast.refreshed
       /\ states[hlast.ctx][hlast.key] = hlast.cellBefore

\* C4: Effect dependency gating.  For the i-th UseEffect call of a record
\* the body runs iff the slot never ran its body or the new dependency list
\* differs from the one of the latest body run; when it runs, the cleanup
\* returned by the latest body run (if any) is invoked exactly once, before
\* the body, and the body runs exactly once; otherwise nothing is invoked.
C4_EffectGating ==
  elast.op = "UseEffect" =>
    LET p == elast.prev
        shouldRun == (~p.ran) \/ (p.deps /= elast.deps)
        body == <<[kind |-> "body", id |-> elast.ret]>>
        clean == IF p.ret /= 0 THEN <<[kind |-> "cleanup", id |-> p.ret]>> ELSE <<>>
    IN elast.events = (IF shouldRun THEN clean \o body ELSE <<>>)

\* C4 witness: a re-run with changed dependencies that invoked the previous
\* cleanup and then the body, and a later call with equal dependencies
\* (here the empty list) that invoked nothing.
C4_WitnessRerun ==
  /\ elast.op = "UseEffect"
  /\ elast.prev.ran
  /\ elast.prev.ret /= 0
  /\ elast.prev.deps /= elast.deps
  /\ Len(elast.events) = 2
  /\ elast.events[1].kind = "cleanup"
  /\ elast.idx = 1

\* C8 (as stated): Focus across rebuilds.  After a render pass the focused
\* key is the key focused before the pass if that key was registered again
\* in the pass; otherwise it is the first key registered in the pass, or no
\* key when the pass registered none.
C8_FocusAcrossRebuilds ==
  flast.op = "render" =>
    fm.currentKey =
      (IF \E i \in 1..Len(lastRegs) : lastRegs[i] = flast.before
         THEN flast.before
         ELSE IF lastRegs /= <<>> THEN lastRegs[1] ELSE NoKey)

\* The registration-ordered list without repetitions (first positions).
RECURSIVE FirstOccurrences(_)
FirstOccurrences(regs) ==
  IF regs = <<>>
    THEN <<>>
    ELSE LET init == FirstOccurrences(SubSeq(regs, 1, Len(regs) - 1))
             k == regs[Len(regs)]
         IN IF \E i \in 1..Len(init) : init[i] = k THEN init ELSE Append(init, k)

\* The position of key k in the list l (k occurs in l).
PositionOf(l, k) == CHOOSE i \in 1..Len(l) : l[i] = k

\* C9: Focus cycling.  The registry lists the keys registered in the latest
\* pass in first-registration order, each once; with a registered key ki
\* focused, Next focuses k(i+1), wrapping from the last key to the first,
\* and Prev focuses k(i-1), wrapping from the first key to the last.
C9_FocusCycling ==
  LET l == FirstOccurrences(lastRegs)
      n == Len(l)
      wasIn == \E i \in 1..n : l[i] = flast.before
  IN /\ fm.focusable = l
     /\ (flast.op = "Next" /\ wasIn) =>
          fm.currentKey = l[(PositionOf(l, flast.before) % n) + 1]
     /\ (flast.op = "Prev" /\ wasIn) =>
          fm.currentKey = l[IF PositionOf(l, flast.before) = 1
                              THEN n ELSE PositionOf(l, flast.before) - 1]

\* C9 witness: three keys registered in a pass with a repeated registration,
\* the last key focused, and Next wrapped to the first key.
C9_WitnessWrap ==
  /\ flast.op = "Next"
  /\ Len(fm.focusable) = 3
  /\ Len(lastRegs) > 3
  /\ flast.before = fm.focusable[3]
  /\ fm.currentKey = fm.focusable[1]

\* C10 (as stated): Handlers do not persist.  After a render pass a record
\* has a key (pointer) handler iff its component registered one during that
\* pass, and a later event invokes only handlers registered in the latest
\* pass.
C10_HandlersDoNotPersist ==
  /\ \A p \in children :
       /\ (keyHandler[p] /= 0) <=> (p \in lastKeyRegs)
       /\ (mouseHandler[p] /= 0) <=> (p \in lastMouseRegs)
  /\ \A i \in 1..Len(tlast.invoked) : tlast.invoked[i].fn = pass


\* C5 Refresh coalescing.  A refresh request never blocks its caller: a
\* task standing before its scheduleRefresh can always take the step, and
\* so can the main loop, whether the loop is starting, selecting, rendering
\* or has returned.  refreshChan never holds more than one request.  It
\* holds one exactly when at least one request was made since the loop last
\* received, however many were made, so the receive that follows leaves the
\* channel empty and all of them share one render pass.
C5_RefreshCoalescing ==
  /\ refreshChan \in 0..RefreshCap
  /\ (refreshChan = RefreshCap) <=> (pendingReqs > 0)
  /\ \A t \in LoopTasks :
       (taskPc[t] = "refresh" /\ loopPc /= "crashed")
         => ENABLED (TaskRefresh(t) /\ UNCHANGED notLoop)
  /\ (loopPc = "select") => ENABLED (LoopResize /\ UNCHANGED notLoop)
  /\ (llast.op = "take") => (refreshChan = 0 /\ pendingReqs = 0)

\* The loop received the one pending request that stands for two or more
\* scheduleRefresh calls.
C5_WitnessCoalesced ==
  /\ llast.op = "take"
  /\ llast.coalesced
  /\ loopPc = "render"

\* C6 A write is eventually rendered.  Whenever a Set, from a key handler
\* in the main loop or from a background task, has changed the cell, a
\* render pass that reads the cell follows, unless the loop has ended or
\* is in diagnostic mode; and Use in a pass returns the value the cell
\* holds, which is the most recently written one.
C6_WriteEventuallyRendered ==
  /\ [](llast.op = "render" /\ llast.val /= Absent
          => llast.val = states[LoopCell.ctx][LoopCell.key])
  /\ (dirty ~> (\/ ~dirty
                \/ loopPc \in {"done", "crashed"}
                \/ lastPanic /= NoPanic))

\* A normal pass after a receive that coalesced several requests read the
\* written value 1 and left nothing unrendered.
C6_WitnessRendered ==
  /\ llast.op = "render"
  /\ llast.kind = "normal"
  /\ llast.coalesced
  /\ llast.val = 1
  /\ ~dirty

\* C7 Fault containment.  A fault raised in a render pass is recovered in
\* the pass: Run goes on to its select and the process ends only after a
\* quit.  The first fault value stays recorded in lastPanic.  From then on
\* the terminal shows the diagnostic screen and no pass invokes the root.
C7_FaultContainment ==
  /\ ~rootAfterPanic
  /\ (lastPanic /= NoPanic) => screen = "error"
  /\ (llast.op = "render" /\ llast.kind = "faulted")
       => (loopPc = "select" /\ lastPanic \in Faults)
  /\ (firstPanic /= NoPanic) => lastPanic = firstPanic
  /\ (llast.op = "render" /\ llast.kind = "diagnostic") => lastPanic /= NoPanic
  /\ (loopPc = "crashed") => quitClosed

\* A pass after a recorded fault drew the diagnostic screen.
C7_WitnessDiagnostic ==
  /\ llast.op = "render"
  /\ llast.kind = "diagnostic"
  /\ lastPanic \in Faults
  /\ screen = "error"

\* C1 Bridge rendezvous.  A task leaves the receive of its Ask only in the
\* step in which a running Submit sends on the task's own channel, that
\* Submit having read the task's question from its Bridge; the task gets
\* the answer passed to Submit and no other task returns in that step.  No
\* two blocked tasks share a channel.  Once a delivering Submit has
\* returned and no Ask has acted since it delivered, the Bridge of the
\* latest render, whether it is the one Submit was called on or a later
\* one, has no interaction and neither has the cell.
C1_Returned ==
  \A t \in BridgeTasks :
    (askPc[t] = "waiting" /\ askPc'[t] /= "waiting")
      => /\ uiPc = "sending" /\ uiPc' = "clearing"
         /\ uiSend.ch = askP[t].answerCh
         /\ uiSend.shownQ = askP[t].question
         /\ got'[t].a = uiSend.a
         /\ \A u \in BridgeTasks \ {t} : askPc'[u] = askPc[u] /\ got'[u] = got[u]
C1_Settled ==
  /\ \A t \in BridgeTasks : got[t] /= NoGot => got[t].shownQ = got[t].q
  /\ \A t \in BridgeTasks : Cardinality(receivers(askP[t].answerCh)) <= 1
  /\ (/\ submitted
      /\ ~askSinceSubmit
      /\ uiPc = "select"
      /\ \A t \in BridgeTasks : askPc[t] /= "publishing")
       => (bobjs[uiRef] = NoInteraction /\ bcell = NoInteraction)
C1_BridgeRendezvous == []C1_Settled /\ [][C1_Returned]_vars

\* A task's Ask returned the submitted answer, Submit returned, and the
\* Bridge of the render that followed has no interaction.
C1_WitnessAnswered ==
  /\ \E t \in BridgeTasks : got[t] /= NoGot /\ got[t].a = "yes" /\ askPc[t] = "idle"
  /\ submitted
  /\ ~askSinceSubmit
  /\ renderedSince
  /\ uiRef = "ui"
  /\ uiPc = "select"
  /\ bobjs[uiRef] = NoInteraction

\* C11 (as stated): Key broadcast.  Every key event the main loop receives
\* invokes the key handler of every record of the tree that has one, each
\* exactly once, and a record's handler before those of its descendants.
IsPrefix(p, q) == Len(p) < Len(q) /\ SubSeq(q, 1, Len(p)) = p
C11_KeyBroadcast ==
  tlast.op = "key" =>
    /\ \A p \in children :
         keyHandler[p] /= 0 =>
           Cardinality({i \in 1..Len(tlast.invoked) : tlast.invoked[i].rec = p}) = 1
    /\ \A i, j \in 1..Len(tlast.invoked) :
         IsPrefix(tlast.invoked[i].rec, tlast.invoked[j].rec) => i < j

\* C12 (as stated): Bridge push.  Update never waits for the UI side: a
\* task whose handle is free can start it and the task inside it can
\* finish it, also after the main loop has returned.  Update(s) leaves s
\* in the cell, and a change of the cell is followed by a pending refresh
\* request.  Bridge.State() of a render pass is the value last pushed
\* before it.
C12_BridgePush ==
  /\ \A t \in BridgeTasks :
       /\ (pushPc[t] = "idle" /\ pmu[ptaskObj[t]] = 0)
            => ENABLED (PushUpdate(t, 0) /\ UNCHANGED notPush)
       /\ (pushPc[t] = "refresh")
            => ENABLED (PushRefresh(t) /\ UNCHANGED notPush)
  /\ (lastPush /= Absent) => pcell = lastPush
  /\ (plast.op = "update") => pcell = plast.val
  /\ pdirty => (refreshChan = RefreshCap \/ \E t \in BridgeTasks : pushPc[t] = "refresh")
  /\ (plast.op = "render" /\ lastPush /= Absent) => pobjs[puiRef] = lastPush

\* C13 Memo gating.  The i-th UseMemo call of a record invokes the compute
\* function exactly when the slot was never computed or the dependency
\* list differs, in length or in some element, from the list of the last
\* computation; it then returns the new result, and otherwise the result
\* of the last computation; the slot afterwards caches what was returned.
C13_MemoGating ==
  mlast.op = "UseMemo" =>
    LET p == mlast.prev
        differs == \/ Len(p.deps) /= Len(mlast.deps)
                   \/ \E i \in 1..Len(p.deps) : p.deps[i] /= mlast.deps[i]
        shouldCompute == (~p.exists) \/ differs
    IN /\ mlast.computed = shouldCompute
       /\ mlast.returned = (IF shouldCompute THEN mlast.fnValue ELSE p.value)
       /\ memos[mlast.idx].exists
       /\ memos[mlast.idx].value = mlast.returned
       /\ memos[mlast.idx].deps = (IF shouldCompute THEN mlast.deps ELSE p.deps)

\* The second UseMemo of a render returned the cached 1 without computing,
\* although the compute function would now return 0.
C13_WitnessCached ==
  /\ mlast.op = "UseMemo"
  /\ mlast.idx = 1
  /\ ~mlast.computed
  /\ mlast.prev.exists
  /\ mlast.fnValue = 0
  /\ mlast.returned = 1
  /\ mlast.deps = <<1, 1>>

\* C14 Ref cells.  The i-th UseRef call of a record returns in every
\* render the cell it returned the first time and creates a cell only
\* that first time; Current read at the call is the value last assigned
\* through that cell, or the initial value of the first call when nothing
\* was assigned, whatever initial value the call passes; UseRef and an
\* assignment to Current leave refreshChan empty.
C14_RefCells ==
  /\ (rlast.op = "UseRef") =>
       /\ rlast.cell = firstCell[rlast.idx]
       /\ rlast.read = expected[rlast.idx]
       /\ refs[rlast.cell].Current = rlast.read
  /\ \A i, j \in RefIdx :
       (firstCell[i] /= Absent /\ firstCell[j] /= Absent /\ i /= j)
         => firstCell[i] /= firstCell[j]
  /\ \A i \in RefIdx :
       firstCell[i] /= Absent =>
         (refs[firstCell[i]].exists /\ refs[firstCell[i]].Current = expected[i])
  /\ refreshChan = 0

\* A later render called the second UseRef with initial value 0 and read
\* the assigned value 1.
C14_WitnessAssigned ==
  /\ rlast.op = "UseRef"
  /\ rlast.idx = 1
  /\ ~rlast.created
  /\ rlast.initial = 0
  /\ rlast.read = 1
  /\ refs[firstCell[0]].Current = 0

\* C15 State is addressed by key.  Use(c, k, initial) returns the value
\* of the cell (c, k), or initial when the cell does not exist yet and is
\* then created with it, whatever other Use calls were made before it and
\* in whatever order; and a Use of k leaves every other cell as it was.
C15_UseReturnsOwnCell ==
  (hlast.op = "Use") =>
    /\ hlast.val = (IF hlast.cellBefore = Absent THEN hlast.arg ELSE hlast.cellBefore)
    /\ states[hlast.ctx][hlast.key] = hlast.val
C15_UseLeavesOthers ==
  (hlast'.op = "Use") =>
    \A c \in Records, k \in StateKeys :
      (c /= hlast'.ctx \/ k /= hlast'.key) => states'[c][k] = states[c][k]
C15_KeyAddressing == []C15_UseReturnsOwnCell /\ [][C15_UseLeavesOthers]_vars

\* Use of "name" returned the value of its own cell while the cell "count"
\* of the same record holds another value.
C15_WitnessTwoKeys ==
  /\ hlast.op = "Use"
  /\ hlast.key = "name"
  /\ hlast.cellBefore = 1
  /\ hlast.arg = 0
  /\ hlast.val = 1
  /\ states["root"]["count"] = 0

\* C16: Child identity.  Child(key[, index]) creates a record only on the
\* first request for that parent and key, and every later request returns
\* the record first returned, whatever the order of requests among
\* siblings; the record is never destroyed: it stays in its parent's map
\* under its key, and what its body stored in its state cells, effect
\* slots, memo slots and refs is still there when it is requested again
\* after passes that did not request it.
C16_ChildIdentity ==
  /\ clast.op = "Child" =>
       /\ clast.id = cfirst[clast.parent, clast.req]
       /\ clast.created => clast.first
       /\ crecs[clast.id].hookIndex = 0 /\ ~crecs[clast.id].handlers
  /\ \A p \in {RootId} \cup ChildIds, q \in ChildReqs :
       cfirst[p, q] /= 0 =>
         /\ crecs[cfirst[p, q]].exists
         /\ crecs[cfirst[p, q]].parent = p
         /\ crecs[cfirst[p, q]].key = fullKey(q[1], q[2])
  /\ \A i \in ChildIds :
       cfilled[i] => /\ crecs[i].states /\ crecs[i].effects
                     /\ crecs[i].memos /\ crecs[i].refs

\* A record that was created first among two siblings, filled by its body
\* and left out of a whole pass is requested again, after its sibling.
C16_WitnessReused ==
  /\ clast.op = "Child" /\ ~clast.created /\ clast.id = 1
  /\ skipped[1] /\ cfilled[1] /\ crecs[1].states /\ crecs[1].memos
  /\ crecs[2].exists /\ crecs[2].parent = crecs[1].parent /\ requested[2]

\* C17 (as stated): Cleanup on exit.  Every cleanup callback returned by an
\* effect body is invoked exactly once, at the next re-run of its slot or
\* when the main loop exits: no callback is ever invoked twice, and once
\* Run has returned nil every callback returned so far, in every record of
\* the tree, has been invoked.
C17_CleanupOnExit ==
  /\ \A cb \in Callbacks : invoked[cb] <= 1
  /\ cupc = "done" => \A cb \in Callbacks : cb < cbNext => invoked[cb] = 1

\* C18 (as stated): Cleanup on unmount.  After a render pass in which the
\* parent did not request the child, the cleanup stored in the child's
\* effect slot has been called.
C18_CleanupOnUnmount ==
  (culast.op = "render" /\ ~culast.panicked /\ ~mounted /\ cslots["child"].cleanup /= 0)
    => invoked[cslots["child"].cleanup] >= 1

\* C19 (as stated): Diagnostic mode accepts only quit.  Once a render fault
\* has been recorded, a key event other than the quit key, or a pointer
\* event, invokes no component handler, leaves the focused key as it was
\* and leaves the state cell as it was.
C19_DiagnosticOnlyQuit ==
  (dlast.panicBefore /\ dlast.op \in {"key", "mouse"} /\ dlast.key /= "CtrlC")
    => /\ ~dlast.invoked
       /\ dfm.currentKey = dlast.focusBefore
       /\ dcell = dlast.cellBefore

\* C20 (as stated): Click to focus.  After a primary-button click, every
\* component that called UseFocus in the latest pass and whose rectangle
\* contains the click holds the focus, and a component whose rectangle does
\* not contain the click has not been given the focus by it.
C20_ClickToFocus ==
  (klast.op = "event" /\ klast.type = "click" /\ klast.button = "left")
    => \A c \in kfocusable :
         IF Contains(krect[c], klast.x, klast.y)
           THEN kfm.currentKey = focusKey(c)
           ELSE kfm.currentKey = focusKey(c) => klast.before = focusKey(c)


\* ---- C21: flex distribution in a vertical stack ----
\* The vertical stacks whose render reached the child loop: inner width and
\* inner height positive and at least one child.
StackLaidOut ==
  /\ lrendered
  /\ lnode.type = "vstackNode"
  /\ Len(lnode.children) > 0
  /\ lwidth - 2 * lnode.paddingH > 0
  /\ lheight - 2 * lnode.paddingV > 0

innerH == lheight - 2 * lnode.paddingV
innerW == lwidth - 2 * lnode.paddingH
flexAt(i)  == isFlexNode(lnode.children[i]) /\ getFlex(lnode.children[i]) > 0
FlexIdx    == { i \in 1..Len(lnode.children) : flexAt(i) }
grantAt(i) == IF i <= Len(lused.grants) THEN lused.grants[i] ELSE 0

RECURSIVE SumOver(_, _)
SumOver(S, f) ==
  IF S = {} THEN 0 ELSE LET i == CHOOSE j \in S : TRUE IN f[i] + SumOver(S \ {i}, f)

weightAt(i)   == getFlex(lnode.children[i])
measuredAt(i) == measureNodeHeight(lnode.children[i], innerW)
ChildIdx == 1..Len(lnode.children)
claimW == SumOver(FlexIdx, [i \in ChildIdx |-> weightAt(i)])
claimR ==
  LET r == innerH - SumOver(ChildIdx \ FlexIdx, [i \in ChildIdx |-> measuredAt(i)])
                  - (Len(lnode.children) - 1) * lnode.gap
  IN IF r < 0 THEN 0 ELSE r

\* C21: in a vertical stack of inner height H every flex child of weight w
\* is granted floor(R/W)*w rows, R being H less the measured non-flex
\* children and the gaps (not below 0) and W the total weight; the grants of
\* the flex children never sum to more than R.
C21_FlexDistribution ==
  (StackLaidOut /\ FlexIdx # {}) =>
     /\ \A i \in FlexIdx : grantAt(i) = (claimR \div claimW) * weightAt(i)
     /\ SumOver(FlexIdx, [i \in ChildIdx |-> grantAt(i)]) <= claimR

\* The spec's examples: weights 1/1 in 10 rows get 5 and 5, weights 1/1/2 in
\* 8 rows get 2, 2 and 4.
C21_Examples ==
  /\ (lrendered /\ lnode = VStack(<<Spacer, Spacer>>) /\ lwidth > 0 /\ lheight = 10)
        => lused.grants = <<5, 5>>
  /\ (lrendered /\ lnode = VStack(<<Spacer, Spacer, Flex(Box(Text(1)), 2)>>)
        /\ lwidth > 0 /\ lheight = 8) => lused.grants = <<2, 2, 4>>


\* ---- C22: justify ----
HStackLaidOut == lrendered /\ lnode.type = "hstackNode" /\ Len(lnode.children) > 0

\* The stack's inner size along its axis, whether it has a flex child, and
\* its content size C: the measured children plus the gaps.
axisSize == IF lnode.type = "vstackNode" THEN innerH ELSE lwidth
hasFlexChild ==
  IF lnode.type = "vstackNode" THEN FlexIdx # {}
  ELSE \E i \in ChildIdx : getChildFlex(lnode.children[i]) > 0
contentSize ==
  (Len(lnode.children) - 1) * lnode.gap
  + SumOver(ChildIdx, [i \in ChildIdx |->
              IF lnode.type = "vstackNode" THEN measuredAt(i)
              ELSE measureWidth(lnode.children[i])])

\* The offset the claim gives the first child.
claimOffset ==
  IF ~hasFlexChild /\ contentSize < axisSize
  THEN CASE lnode.justify = "AlignLeft"   -> 0
         [] lnode.justify = "AlignCenter" -> (axisSize - contentSize) \div 2
         [] lnode.justify = "AlignRight"  -> axisSize - contentSize
  ELSE 0

C24_WithinGrant ==
  lrendered =>
     /\ lused.rows \subseteq 0..(lheight - 1)
     /\ 0 <= lused.used /\ lused.used <= lheight

\* ---- C25: measure and render agree ----
\* C25: for a node that is not a flex child, rendered with the width it was
\* measured with and a height of at least measureNodeHeight(node, width),
\* the used height equals the measured height.
C25_MeasureRenderAgree ==
  (lrendered /\ ~(isFlexNode(lnode) /\ getFlex(lnode) > 0) /\ lheight >= lmeasure)
     => lused.used = lmeasure


\* ---- C23: scroll auto-tail ----
\* The passes of a scroll node with auto-tail on and content taller than
\* the viewport.
TailPass == sout.rendered /\ sout.auto /\ sout.content > sout.view

\* C23: with auto-tail on and content height c > viewport height v, render
\* sets the offset to c - v and stores it in the scrollTop cell, and
\* viewport row j shows content row c - v + j for every j in [0, v): exactly
\* the content rows [c - v, c) are drawn.
C23_AutoTail ==
  TailPass =>
     /\ sout.offY = sout.content - sout.view
     /\ sout.stored = sout.content - sout.view
     /\ \A j \in 0..(sout.view - 1) : sout.shown[j] = sout.content - sout.view + j

\* The spec's example: content 20 in a viewport of 5 has offset 15 and
\* shows rows 15..19.
C23_Example ==
  (TailPass /\ sout.content = 20 /\ sout.view = 5) =>
     /\ sout.offY = 15
     /\ sout.shown = [j \in 0..4 |-> 15 + j]

\* ---- C26: the scrollbar thumb ----
\* C26: whenever the thumb is drawn (content taller than the viewport), its
\* height is at least 1 and it lies on the track: thumbPos >= 0 and
\* thumbPos + thumbHeight <= viewport height.
C26_ThumbOnTrack ==
  (sout.rendered /\ sout.thumbDrawn) =>
     /\ sout.thumbHeight >= 1
     /\ sout.thumbPos >= 0
     /\ sout.thumbPos + sout.thumbHeight <= sout.view

\* ---- C27: auto-tail pauses on manual scroll ----
\* C27: in a TailBox, a pass over content taller than the viewport shows the
\* bottom of the content while the user has not scrolled away (no wheel-up
\* inside the box since the start or since the user last scrolled down to
\* the bottom), and keeps the offset the user left otherwise.
C27_TailPausesOnScroll ==
  (sout.rendered /\ sout.content > sout.view) =>
     IF sout.pinned
     THEN /\ sout.offY = sout.content - sout.view
          /\ sout.view > 0 => sout.shown[sout.view - 1] = sout.content - 1
     ELSE sout.offY = sout.before


\* ---- C28: caret suppression ----
\* C28 as stated: after a normal pass the caret is shown on the real surface
\* if and only if a cursor marker was rendered in that pass (inside the
\* visible area of its scroll viewport), at the position of the marker
\* rendered last.
C28_CaretIffMarker ==
  glast.kind = "normal" =>
     /\ gcaret.shown <=> glast.marker # NoPos
     /\ gcaret.shown => gcaret.pos = glast.marker

\* C28, amended: after a normal pass the caret is shown if and only if,
\* during that pass, a cursor marker was rendered or a component body
\* called SetCursor; it is at the position of the marker rendered last, or
\* at the SetCursor position when no marker was rendered.  A caret of an
\* earlier pass does not survive a pass without either.
C28_CaretIffRequested ==
  glast.kind = "normal" =>
     /\ gcaret.shown <=> (glast.marker # NoPos \/ glast.body # NoPos)
     /\ gcaret.shown =>
          gcaret.pos = IF glast.marker # NoPos THEN glast.marker ELSE glast.body

\* A normal pass without any request hides the caret an earlier pass showed.
C28_WitnessSuppressed ==
  /\ glast.kind = "normal" /\ glast.before
  /\ glast.marker = NoPos /\ glast.body = NoPos
  /\ ~gcaret.shown


\* ---- C29: context lookup ----
\* C29: in every pass, the first included, UseContext returns the value the
\* nearest providing ancestor passes to Provide in that same pass, and the
\* default only when no ancestor provides.
C29_ContextLookup ==
  xlast.passes > 0 =>
     xread = IF xlast.mid # Absent THEN xlast.mid
             ELSE IF xlast.root # Absent THEN xlast.root
             ELSE DefaultValue


\* ---- C30: Blur releases focus ----
\* C30: after the focused component calls Blur, it is no longer the focused
\* one, however many focusable components are registered.
C30_BlurReleasesFocus ==
  (flast.op = "Blur" /\ flast.before = flast.key) => fm.currentKey # flast.key

\* ---- C31: writes act on the cell's current value ----
\* C31: whichever State handle is used and whenever it was obtained, Set(v)
\* leaves the cell holding v and is suppressed (no store, no refresh) only
\* if v is deep-equal to the value the cell held at the time of the call;
\* Update(fn) leaves the cell holding fn applied to the value the cell held
\* at the time of the call.
C31_WritesActOnCurrent ==
  /\ hlast.op = "Set" =>
       /\ states[hlast.ctx][hlast.key] = hlast.arg
       /\ ~hlast.refreshed => DeepEqual(hlast.arg, hlast.cellBefore)
  /\ hlast.op = "Update" =>
       states[hlast.ctx][hlast.key] = ApplyFn(hlast.fn, hlast.cellBefore)

\* ---- C32: cells are stable during a pass ----
\* C32: when a render pass ends, every cell that existed when the pass began
\* holds the value it held then, and the two reads of the cell "seconds" in
\* the pass (by the root and by the nested component) returned the same
\* value.
C32_StableDuringPass ==
  qlast.op = "end" =>
    /\ \A k \in DOMAIN qstart : qlast.ended[k] = qstart[k]
    /\ qreads[1] = qreads[2]

\* ---- C37: rendering reaches quiescence ----
\* C37: with no input and no background write, at most two render passes
\* begin, and when the second has ended no refresh request is pending.
C37_Quiescence ==
  /\ qquiet <= 2
  /\ (qquiet = 2 /\ qpc = "select") => refreshChan = 0

\* Witness: the second pass after the last input has ended, the one before
\* it having written the tail offset back.
C37_WitnessSettled ==
  /\ qquiet = 2
  /\ qpc = "select"
  /\ qlast.op = "end"
  /\ ~qlast.wrote
  /\ qcells["scrollTop"] > 0

\* ---- C33: pointer broadcast ----
\* C33: a pointer event is delivered to every registered pointer handler,
\* each exactly once, a record's handler before those of its descendants,
\* and every handler is called with the event as it occurred: the same
\* position, button and event type.
C33_PointerBroadcast ==
  klast.op = "event" =>
    LET d == klast.delivered
        occurred == [x |-> klast.x, y |-> klast.y, button |-> klast.button,
                     type |-> klast.type]
    IN /\ \A c \in ClickComps :
            kmouse[c] # "nil" =>
              Cardinality({i \in 1..Len(d) : d[i].rec = c}) = 1
       /\ \A i, j \in 1..Len(d) : IsPrefix(d[i].rec, d[j].rec) => i < j
       /\ \A i \in 1..Len(d) : d[i].ev = occurred

\* ---- C34: concurrent asks are all answered ----
\* C34: when two tasks are inside Ask on the same Handle at the same time
\* and the UI side submits an answer for every interaction it is shown,
\* each of the two Ask calls eventually returns.
BothAsking == \A t \in BridgeTasks : askPc[t] \in {"publishing", "waiting"}
C34_ConcurrentAsksAnswered ==
  \A t \in BridgeTasks : BothAsking ~> (askPc[t] = "idle")

\* ---- C35: keys go to the currently focused component ----
\* C35: when a key other than Tab is dispatched, the only Button that acts
\* on it as the focused one is the Button whose key is the focus manager's
\* current key at the time of dispatch.
C35_KeysToFocused ==
  ylast.op = "key" => ylast.acted \subseteq {ylast.current}

\* ---- C36: Quit is idempotent ----
\* C36: Quit may be called more than once: no call raises a fault in the
\* main loop, and no cleanup callback is invoked more than once.
C36_QuitIdempotent ==
  /\ cupc /= "crashed"
  /\ culast.op = "quit" => \A cb \in Callbacks : invoked[cb] <= 1

\* ---- C38: the TextInput cursor stays in range ----
\* C38: at every render of a TextInput the cursor offset is at least 0 and
\* at most the number of runes of its text, so the render raises no fault.
C38_CursorInRange ==
  ilast.op = "render" =>
    /\ 0 <= ilast.cursor
    /\ ilast.cursor <= ilast.len
    /\ ~ifault

\* ---- C39: vertical cursor movement ----
\* The lines of a rune sequence, read off the positions of its line feeds:
\* the 0-based line of position p, and the positions where line k starts
\* and ends.
feeds(runes) == {i \in 1..Len(runes) : runes[i] = "nl"}
lineOf(runes, p) == Cardinality({i \in feeds(runes) : i <= p})
startOf(runes, k) ==
  IF k = 0 THEN 0
  ELSE CHOOSE i \in feeds(runes) : Cardinality({j \in feeds(runes) : j <= i}) = k
endOf(runes, k) ==
  IF k = Cardinality(feeds(runes)) THEN Len(runes) ELSE startOf(runes, k + 1) - 1
sameColumn(runes, p, k) ==
  LET col == p - startOf(runes, lineOf(runes, p))
      len == endOf(runes, k) - startOf(runes, k)
  IN startOf(runes, k) + (IF col > len THEN len ELSE col)

\* C39: findPosAbove returns 0 when the position is on the first line and
\* otherwise the position of the same column on the previous line, clamped
\* to the end of that line; findPosBelow returns the length when the
\* position is on the last line and otherwise the position of the same
\* column on the next line, clamped likewise; both results lie in
\* [0, length].
C39_VerticalMovement ==
  LET runes == vfind.runes
      p     == vfind.current
      k     == lineOf(runes, p)
  IN /\ vfind.op = "above" =>
          vfind.result = IF k = 0 THEN 0 ELSE sameColumn(runes, p, k - 1)
     /\ vfind.op = "below" =>
          vfind.result = IF k = Cardinality(feeds(runes)) THEN Len(runes)
                         ELSE sameColumn(runes, p, k + 1)
     /\ vfind.op # "none" => (0 <= vfind.result /\ vfind.result <= Len(runes))

\* Witness: a move up from column 2 of the second line onto a first line of
\* one rune lands at the end of that line.
C39_WitnessClamped ==
  /\ vfind.op = "above"
  /\ vfind.runes = <<"a", "nl", "a", "a">>
  /\ vfind.current = 4
  /\ vfind.result = 1

====
